---- MODULE Spec2Model ----
(***************************************************************************)
(* telnet-go: the TELNET codec (writer.go, reader.go, io.go) and the       *)
(* Session's NAWS negotiation (Session.RequestWindowSize).                 *)
(*                                                                         *)
(* Spec      the codec: a telnet writer (or a raw peer) produces a wire    *)
(*           stream, a telnet reader decodes it with successive Reads.     *)
(* SpecNaws  a Session: RequestWindowSize and Read on the shared bufio     *)
(*           buffer, against a peer's scripted reply and the 2 s timer.    *)
(***************************************************************************)
EXTENDS Integers, Sequences, FiniteSets, TLC

\* ---- wire constants (reader.go) ----
ECHO == 1
SGA == 3
NL == 10
CR == 13
NAWS == 31
SE == 240
SB == 250
WILL == 251
WONT == 252
DO == 253
DONT == 254
IAC == 255

\* ---- bounds ----
MaxData == 6      \* longest data block handed to writer.Write
MaxItems == 3     \* protocol items in a raw peer stream
MaxBuf == 2       \* largest len(data) of a Read call
MaxChunk == 2     \* most bytes the transport accepts in one Write call
MaxReply == 2     \* protocol items in the peer's reply to DO NAWS
MaxFill == 2      \* largest partial transport Read; larger ones return all in flight
MaxConns == 2     \* connections the listener accepts in one run
MaxLine == 4      \* protocol items in a stream read with ReadLine
MaxEcho == 2      \* protocol items a peer sends to the EchoHandler
MaxText == 6      \* longest block handed to Session.Write

\* ---- sequence helpers ----
SeqsUpTo(S, n) == UNION {[1..k -> S] : k \in 0..n}

Min(a, b) == IF a < b THEN a ELSE b

Drop(s, k) == SubSeq(s, k + 1, Len(s))

Take(s, k) == SubSeq(s, 1, k)

\* ---- io.go ----
\* The transport's Write: accepts at most c bytes of p in one call.
ConnWrite(p, c) == Min(Len(p), c)

RECURSIVE LongWrite(_, _)
\* for len(p) > 0 { n, err := w.Write(p); numWritten += n; p = p[n:] }
LongWrite(p, c) ==
    IF Len(p) = 0
    THEN [w |-> <<>>, n |-> 0, err |-> "nil"]
    ELSE LET k == ConnWrite(p, c)
             rest == LongWrite(Drop(p, k), c)
         IN [w |-> Take(p, k) \o rest.w, n |-> k + rest.n, err |-> rest.err]

\* ---- writer.go ----
commandSignature == <<IAC, IAC, IAC, IAC>>

EscapeIAC == <<IAC, IAC>>

\* Variant: the signature test expects a longer block than WriteCommand sends.
IsCommandWrite_LongOnly(data) == Len(data) > 7 /\ Take(data, 4) = commandSignature

\* The "workaround for commands" test at the head of writer.Write.
IsCommandWrite(data) == Len(data) > 5 /\ Take(data, 4) = commandSignature

RECURSIVE WriteLoop(_, _, _, _, _)
\* The range loop of writer.Write and the final flush: 'buffer' holds the
\* pending non-IAC bytes, 'n' the count so far, 'w' the bytes on the wire.
WriteLoop(data, buffer, n, w, c) ==
    IF Len(data) = 0
    THEN IF Len(buffer) > 0
         THEN LET r == LongWrite(buffer, c)
              IN [w |-> w \o r.w, n |-> n + r.n, err |-> r.err]
         ELSE [w |-> w, n |-> n, err |-> "nil"]
    ELSE IF Head(data) # IAC
    THEN WriteLoop(Tail(data), Append(buffer, Head(data)), n, w, c)
    ELSE LET f == IF Len(buffer) > 0 THEN LongWrite(buffer, c)
                  ELSE [w |-> <<>>, n |-> 0, err |-> "nil"]
             e == LongWrite(EscapeIAC, c)
         IN IF f.err # "nil"
            THEN [w |-> w \o f.w, n |-> n + f.n, err |-> f.err]
            ELSE IF e.err # "nil"
            THEN [w |-> w \o f.w \o e.w, n |-> n + f.n, err |-> e.err]
            ELSE IF e.n # Len(EscapeIAC)
            THEN [w |-> w \o f.w \o e.w, n |-> n + f.n, err |-> "partial IAC IAC write"]
            ELSE WriteLoop(Tail(data), <<>>, n + f.n + 1, w \o f.w \o e.w, c)

\* writer.Write(data) over a transport accepting c bytes per call.
Write(data, c) ==
    IF IsCommandWrite(data)
    THEN LongWrite(Drop(data, 4), c)
    ELSE WriteLoop(data, <<>>, 0, <<>>, c)

\* WriteCommand(writer, command, option, action) on a telnet writer.
WriteCommand(command, option, action, c) ==
    Write(commandSignature \o <<command, option, action>>, c)

\* ---- Session: Write, WriteCommand ----
RECURSIVE Replace(_, _, _)
\* bytes.Replace(s, old, new, -1) for a non-empty 'old'.
Replace(s, old, new) ==
    IF Len(s) < Len(old) THEN s
    ELSE IF Take(s, Len(old)) = old
    THEN new \o Replace(Drop(s, Len(old)), old, new)
    ELSE <<Head(s)>> \o Replace(Tail(s), old, new)

\* Session.Write(data) with s.isPTY = pty.
SessionWrite(data, pty, c) ==
    IF pty
    THEN LET d1 == Replace(data, <<NL>>, <<CR, NL>>)
             d2 == Replace(d1, <<CR, CR, NL>>, <<CR, NL>>)
             r == Write(d2, c)
         IN [w |-> r.w, n |-> IF r.n > Len(data) THEN Len(data) ELSE r.n, err |-> r.err]
    ELSE Write(data, c)

\* Session.WriteCommand: WriteCommand(s, ...) calls s.Write, not the writer's.
SessionWriteCommand(command, option, action, pty, c) ==
    SessionWrite(commandSignature \o <<command, option, action>>, pty, c)

\* Variant: the two bytes are combined little-endian.
ShiftOr_LowFirst(hi, lo) == lo * 256 + hi

\* int(hi)<<8 | int(lo) on two bytes.
ShiftOr(hi, lo) == hi * 256 + lo

\* ---- the peer's raw streams ----
Triplets ==
    {<<IAC, WILL, ECHO>>, <<IAC, WONT, IAC>>, <<IAC, DO, IAC>>, <<IAC, DONT, SE>>}

SubPayloads == {<<>>, <<IAC, IAC>>, <<IAC, ECHO>>, <<IAC, IAC, SE>>}

Subnegs == {<<IAC, SB, ECHO>> \o p \o <<IAC, SE>> : p \in SubPayloads}

Items ==
    {<<65>>, <<IAC, IAC>>, <<IAC, ECHO>>, <<IAC, SE>>} \cup Triplets \cup Subnegs

RECURSIVE Concat(_)
Concat(ss) == IF Len(ss) = 0 THEN <<>> ELSE Head(ss) \o Concat(Tail(ss))

ScriptsOf(I, n) == {Concat(ss) : ss \in SeqsUpTo(I, n)}

DataBytes == {65, IAC}

CmdBytes == {ECHO, WILL, IAC}

Inputs ==
    {[kind |-> "data", bytes |-> d] : d \in SeqsUpTo(DataBytes, MaxData)}
    \cup {[kind |-> "cmd", bytes |-> t] : t \in [1..3 -> CmdBytes]}
    \cup {[kind |-> "raw", bytes |-> s] : s \in ScriptsOf(Items, MaxItems)}

BufLens == 1..MaxBuf

VARIABLES
    input,      \* what this run feeds the codec: data, a command, or a raw stream
    chunk,      \* bytes the transport accepts per Write call
    outw,       \* bytes the local writer has put on the transport
    wres,       \* (n, err) returned by the last writer call
    wire,       \* the inbound octet stream, in wire order
    filled,     \* wire[1..filled] has been pulled into the bufio buffer
    pos,        \* wire[1..pos] has been consumed from the bufio buffer
    eof,        \* the peer has closed the stream
    rpc,        \* position inside reader.Read
    rlen,       \* len(data) still free in the current Read
    rn,         \* n of the current Read
    delivered,  \* application bytes handed to Read callers so far
    lastN,      \* n returned by the last Read
    lastErr,    \* err returned by the last Read
    corruptAt,  \* Len(delivered) when a Read first returned "corrupted", else -1
    callPos,    \* pos when the current (or last) Read was called
    npc,        \* position inside Session.RequestWindowSize
    cmd,        \* the command byte RequestWindowSize read after IAC
    timedOut,   \* the time.After channel is ready
    termCols,   \* Session.termCols
    termRows,   \* Session.termRows
    rwsRet,     \* what the last RequestWindowSize returned
    rwsVia,     \* the return statement it left through
    rwsPos,     \* pos when RequestWindowSize was called, else -1
    isPTY       \* Session.isPTY

codecVars == <<input, chunk, outw, wres>>

streamVars == <<wire, filled, pos, eof>>

readVars == <<rpc, rlen, rn, delivered, lastN, lastErr, corruptAt, callPos>>

nawsVars == <<npc, cmd, timedOut, termCols, termRows, rwsRet, rwsVia, rwsPos, isPTY>>

VARIABLES
    lpc,        \* position inside ReadLine
    line,       \* ReadLine's 'line' buffer
    lineRet,    \* the strings returned by the ReadLine calls so far
    lineStr,    \* the string returned by the last ReadLine
    lineErr,    \* err returned by the last ReadLine
    lineEnds    \* pos after each ReadLine that returned a line

lineVars == <<lpc, line, lineRet, lineStr, lineErr, lineEnds>>

VARIABLES
    listener,    \* the listener of Server.listener: "open" or "closed"; "nil" while none is set
    hasTimeout,  \* Server.Timeout > 0
    tpc,         \* per connection: position inside Server.handle
    wpc,         \* per connection: position of the goroutine handle starts
    done,        \* per connection: conn.ctx is done
    closed,      \* per connection: the transport has been closed on this side
    addr,        \* per connection: conn.RemoteAddr().String(), 0 before accept
    handles,     \* Server.handles: remote address -> connection whose cancel it holds
    sent,        \* per connection: bytes written to the transport
    spc,         \* position inside Server.Shutdown
    wg,          \* the WaitGroup counter of Shutdown
    visited,     \* keys the range loop of Shutdown has produced
    pending,     \* connections whose cancel a spawned goroutine is about to call
    shRunning,   \* connections whose handler was running when Shutdown was called
    fault,       \* the unrecovered panic that ended the process, "none" otherwise
    inb,         \* per connection: the bytes the peer sends
    rp,          \* per connection: inb[c][1..rp[c]] has been consumed by the reader
    peerEnd,     \* per connection: the peer has closed its end
    buffer,      \* the one-byte buffers of the EchoHandler invocations
    hn,          \* per connection: n of EchoHandler's last Read
    herr         \* per connection: err of the Read EchoHandler has not acted on yet, else "none"

serverVars == <<listener, hasTimeout, tpc, wpc, done, closed, addr, handles, sent,
                spc, wg, visited, pending, shRunning, fault>>

echoVars == <<inb, rp, peerEnd, buffer, hn, herr>>

VARIABLES
    wt,         \* per writing task: its position inside writer.Write / LongWrite
    sink,       \* what the underlying io.Writer has accepted: <<byte, task>> in order
    sinkState   \* the underlying io.Writer: "open", "stalled", "failing" or "broken"

ioVars == <<wt, sink, sinkState>>

VARIABLES
    serving,    \* per call of Server.Serve: "none" before the call, "accepting" in the loop, else the error returned
    served      \* the Serve call whose listener server.listener holds, 0 while it is nil

lifeVars == <<serving, served>>

telnetVars == <<codecVars, streamVars, readVars, nawsVars>>

vars == <<input, chunk, outw, wres, wire, filled, pos, eof, rpc, rlen, rn,
          delivered, lastN, lastErr, corruptAt, callPos, npc, cmd, timedOut, termCols,
          termRows, rwsRet, rwsVia, rwsPos, isPTY, lineVars, serverVars, echoVars,
          ioVars, lifeVars>>

Conns == 1..MaxConns

\* ---- bufio.Reader over the transport ----
Buffered == filled - pos

\* ReadByte / Peek(1) would get io.EOF: nothing buffered, nothing left to arrive.
BufEOF == pos = filled /\ filled = Len(wire) /\ eof

\* ReadByte / Peek(1) can complete: a byte is buffered or the transport has one.
BufReady == pos < Len(wire)

\* The buffer's extent after ReadByte / Peek(1): unchanged when a byte is
\* buffered, else one transport Read, which returns a short piece of the bytes
\* in flight (up to MaxFill of them) or all of them.
FillTo ==
    IF pos < filled THEN {filled}
    ELSE {f \in (filled + 1)..Len(wire) : f - filled <= MaxFill \/ f = Len(wire)}

NextByte == wire[pos + 1]

\* ---- reader.go: reader.Read ----
\* Variant: DONT is missing from the negotiation case.
PeekCase_NoDont(b) ==
    CASE b \in {WILL, WONT, DO} -> "negotiation"
      [] b = IAC -> "escaped"
      [] b = SB -> "subnegotiation"
      [] b = SE -> "orphan"
      [] OTHER -> "corrupted"

\* Variant: an unrecognised byte after IAC is skipped like an orphan SE.
PeekCase_SkipUnknown(b) ==
    CASE b \in {WILL, WONT, DO, DONT} -> "negotiation"
      [] b = IAC -> "escaped"
      [] b = SB -> "subnegotiation"
      [] OTHER -> "orphan"

\* The switch on the byte peeked after IAC, lines 79-123.
PeekCase(b) ==
    CASE b \in {WILL, WONT, DO, DONT} -> "negotiation"
      [] b = IAC -> "escaped"
      [] b = SB -> "subnegotiation"
      [] b = SE -> "orphan"
      [] OTHER -> "corrupted"

\* Line 105: the byte after an IAC in a subnegotiation payload is discarded.
SubnegDiscards(b) == b = IAC \/ b = SE

\* Variant: a doubled IAC in the payload also ends the subnegotiation.
SubnegEnds_OnAnyDiscard(b) == b = SE \/ b = IAC

\* Line 110: the subnegotiation loop is left.
SubnegEnds(b) == b = SE

ReadReturn(err) ==
    /\ rpc' = "idle"
    /\ lastN' = rn
    /\ lastErr' = err
    /\ corruptAt' = IF err = "corrupted" /\ corruptAt < 0 THEN Len(delivered) ELSE corruptAt

\* data[0] = b; n++; data = data[1:]
Emit(b) ==
    /\ delivered' = Append(delivered, b)
    /\ rn' = rn + 1
    /\ rlen' = rlen - 1

Read_Call ==
    /\ rpc = "idle"
    /\ \E l \in BufLens : rlen' = l
    /\ rpc' = "top"
    /\ rn' = 0
    /\ callPos' = pos
    /\ UNCHANGED <<delivered, lastN, lastErr, corruptAt>>
    /\ UNCHANGED <<codecVars, streamVars, nawsVars>>
    /\ UNCHANGED <<lineVars, ioVars, lifeVars, serverVars, echoVars>>

\* Variant: the loop is left whenever nothing is buffered.
BreakEarly_AnyN == Buffered < 1

\* if n > 0 && r.buffered.Buffered() < 1 { break }, lines 62-64.
BreakEarly == rn > 0 /\ Buffered < 1

\* Loop head, the Buffered() test and the ReadByte of lines 61-69, 124-128.
Read_Top ==
    /\ rpc = "top"
    /\ IF rlen = 0 \/ BreakEarly
       THEN /\ ReadReturn("nil")
            /\ UNCHANGED <<rlen, rn, delivered, filled, pos>>
       ELSE IF BufEOF
       THEN /\ ReadReturn("EOF")
            /\ UNCHANGED <<rlen, rn, delivered, filled, pos>>
       ELSE /\ BufReady
            /\ \E f \in FillTo : filled' = f
            /\ pos' = pos + 1
            /\ IF NextByte = IAC
               THEN /\ rpc' = "peek"
                    /\ UNCHANGED <<rlen, rn, delivered, lastN, lastErr, corruptAt>>
               ELSE /\ Emit(NextByte)
                    /\ UNCHANGED <<rpc, lastN, lastErr, corruptAt>>
    /\ UNCHANGED <<wire, eof, callPos, codecVars, nawsVars>>
    /\ UNCHANGED <<lineVars, ioVars, lifeVars, serverVars, echoVars>>

\* Peek(1) after IAC and the switch of lines 74-123.
Read_Peek ==
    /\ rpc = "peek"
    /\ IF BufEOF
       THEN /\ ReadReturn("EOF")
            /\ UNCHANGED <<rlen, rn, delivered, filled, pos>>
       ELSE /\ BufReady
            /\ \E f \in FillTo : filled' = f
            /\ CASE PeekCase(NextByte) = "negotiation" ->
                      /\ pos' = pos + 1
                      /\ rpc' = "discard"
                      /\ UNCHANGED <<rlen, rn, delivered, lastN, lastErr, corruptAt>>
                 [] PeekCase(NextByte) = "escaped" ->
                      /\ Emit(IAC)
                      /\ pos' = pos + 1
                      /\ rpc' = "top"
                      /\ UNCHANGED <<lastN, lastErr, corruptAt>>
                 [] PeekCase(NextByte) = "subnegotiation" ->
                      /\ rpc' = "sb"
                      /\ UNCHANGED <<pos, rlen, rn, delivered, lastN, lastErr, corruptAt>>
                 [] PeekCase(NextByte) = "orphan" ->
                      /\ pos' = pos + 1
                      /\ rpc' = "top"
                      /\ UNCHANGED <<rlen, rn, delivered, lastN, lastErr, corruptAt>>
                 [] OTHER ->
                      /\ ReadReturn("corrupted")
                      /\ UNCHANGED <<pos, rlen, rn, delivered>>
    /\ UNCHANGED <<wire, eof, callPos, codecVars, nawsVars>>
    /\ UNCHANGED <<lineVars, ioVars, lifeVars, serverVars, echoVars>>

\* Variant: Discard skips only what is buffered already.
DiscardSkips_BufferedOnly == Buffered >= 1

\* bufio's Discard(n) reads from the transport until n bytes are skipped.
DiscardSkips == TRUE

\* The second byte of Discard(2), line 81: the verb went with the first.
Read_Discard ==
    /\ rpc = "discard"
    /\ IF BufEOF
       THEN /\ ReadReturn("EOF")
            /\ UNCHANGED <<filled, pos>>
       ELSE IF DiscardSkips
       THEN /\ BufReady
            /\ \E f \in FillTo : filled' = f
            /\ pos' = pos + 1
            /\ rpc' = "top"
            /\ UNCHANGED <<lastN, lastErr, corruptAt>>
       ELSE /\ rpc' = "top"
            /\ UNCHANGED <<filled, pos, lastN, lastErr, corruptAt>>
    /\ UNCHANGED <<rlen, rn, delivered>>
    /\ UNCHANGED <<wire, eof, callPos, codecVars, nawsVars>>
    /\ UNCHANGED <<lineVars, ioVars, lifeVars, serverVars, echoVars>>

\* ReadByte inside the subnegotiation loop, lines 93-99.
Read_SB ==
    /\ rpc = "sb"
    /\ IF BufEOF
       THEN /\ ReadReturn("EOF")
            /\ UNCHANGED <<filled, pos>>
       ELSE /\ BufReady
            /\ \E f \in FillTo : filled' = f
            /\ pos' = pos + 1
            /\ rpc' = IF NextByte = IAC THEN "sbpeek" ELSE "sb"
            /\ UNCHANGED <<lastN, lastErr, corruptAt>>
    /\ UNCHANGED <<rlen, rn, delivered>>
    /\ UNCHANGED <<wire, eof, callPos, codecVars, nawsVars>>
    /\ UNCHANGED <<lineVars, ioVars, lifeVars, serverVars, echoVars>>

\* Peek(1) after an IAC in the subnegotiation payload, lines 100-113.
Read_SBPeek ==
    /\ rpc = "sbpeek"
    /\ IF BufEOF
       THEN /\ ReadReturn("EOF")
            /\ UNCHANGED <<filled, pos>>
       ELSE /\ BufReady
            /\ \E f \in FillTo : filled' = f
            /\ pos' = IF SubnegDiscards(NextByte) THEN pos + 1 ELSE pos
            /\ rpc' = IF SubnegDiscards(NextByte) /\ SubnegEnds(NextByte) THEN "top" ELSE "sb"
            /\ UNCHANGED <<lastN, lastErr, corruptAt>>
    /\ UNCHANGED <<rlen, rn, delivered>>
    /\ UNCHANGED <<wire, eof, callPos, codecVars, nawsVars>>
    /\ UNCHANGED <<lineVars, ioVars, lifeVars, serverVars, echoVars>>

\* ---- the writing side of the codec run ----
Produced == input.kind = "raw" \/ wres.err # "none"

\* writer.Write(input.bytes); the bytes on the transport are the reader's wire.
Writer_Write ==
    /\ input.kind = "data"
    /\ wres.err = "none"
    /\ LET r == Write(input.bytes, chunk)
       IN /\ outw' = outw \o r.w
          /\ wire' = wire \o r.w
          /\ wres' = [n |-> r.n, err |-> r.err]
    /\ UNCHANGED <<input, chunk, filled, pos, eof, readVars, nawsVars>>
    /\ UNCHANGED <<lineVars, ioVars, lifeVars, serverVars, echoVars>>

\* WriteCommand(w, c, o, a) on the telnet writer.
Writer_WriteCommand ==
    /\ input.kind = "cmd"
    /\ wres.err = "none"
    /\ LET r == WriteCommand(input.bytes[1], input.bytes[2], input.bytes[3], chunk)
       IN /\ outw' = outw \o r.w
          /\ wire' = wire \o r.w
          /\ wres' = [n |-> r.n, err |-> r.err]
    /\ UNCHANGED <<input, chunk, filled, pos, eof, readVars, nawsVars>>
    /\ UNCHANGED <<lineVars, ioVars, lifeVars, serverVars, echoVars>>

\* The peer closes its end once everything it sent has been received.
PeerClose ==
    /\ Produced
    /\ ~eof
    /\ filled = Len(wire)
    /\ eof' = TRUE
    /\ UNCHANGED <<wire, filled, pos, codecVars, readVars, nawsVars>>
    /\ UNCHANGED <<lineVars, ioVars, lifeVars, serverVars, echoVars>>

InitRead ==
    /\ filled = 0
    /\ pos = 0
    /\ eof = FALSE
    /\ rpc = "idle"
    /\ rlen = 0
    /\ rn = 0
    /\ delivered = <<>>
    /\ lastN = 0
    /\ lastErr = "none"
    /\ corruptAt = -1
    /\ callPos = 0

\* ReadLine has not been called.
InitLine ==
    /\ lpc = "idle"
    /\ line = <<>>
    /\ lineRet = <<>>
    /\ lineStr = <<>>
    /\ lineErr = "none"
    /\ lineEnds = <<>>

\* ---- tasks that write to one underlying io.Writer ----
MaxWrite == 3     \* longest block handed to a writing task

Writers == 1..2

\* A task that has not called anything.
NoCall ==
    [pc |-> "off", kind |-> "none", arg |-> <<>>, data |-> <<>>, buffer |-> <<>>, n |-> 0,
     p |-> <<>>, numWritten |-> 0, after |-> "none", err |-> "none"]

\* No task writes beside the operations under test.
InitNoWriters ==
    /\ wt = [t \in Writers |-> NoCall]
    /\ sink = <<>>
    /\ sinkState = "open"

MaxServe == 2     \* calls of Server.Serve on one Server

Serves == 1..MaxServe

\* Server.Serve is in its accept loop, nothing accepted, Shutdown not called.
InitListening ==
    /\ listener = "open"
    /\ tpc = [c \in Conns |-> "none"]
    /\ wpc = [c \in Conns |-> "none"]
    /\ done = [c \in Conns |-> FALSE]
    /\ closed = [c \in Conns |-> FALSE]
    /\ addr = [c \in Conns |-> 0]
    /\ handles = [k \in {} |-> 0]
    /\ sent = [c \in Conns |-> <<>>]
    /\ spc = "idle"
    /\ wg = 0
    /\ visited = {}
    /\ pending = {}
    /\ shRunning = {}
    /\ fault = "none"
    /\ rp = [c \in Conns |-> 0]
    /\ peerEnd = [c \in Conns |-> FALSE]
    /\ buffer = [c \in Conns |-> 0]
    /\ hn = [c \in Conns |-> 0]
    /\ herr = [c \in Conns |-> "none"]
    /\ serving = [i \in Serves |-> IF i = 1 THEN "accepting" ELSE "none"]
    /\ served = 1

\* No server runs beside the codec under test.
InitNoServer ==
    /\ InitListening
    /\ hasTimeout = FALSE
    /\ inb = [c \in Conns |-> <<>>]

InitSession ==
    /\ npc = "idle"
    /\ cmd = 0
    /\ timedOut = FALSE
    /\ termCols = 0
    /\ termRows = 0
    /\ rwsRet = "none"
    /\ rwsVia = "none"
    /\ rwsPos = -1
    /\ isPTY = FALSE

Init ==
    /\ input \in Inputs
    /\ chunk \in (IF input.kind = "raw" THEN {MaxChunk} ELSE 1..MaxChunk)
    /\ outw = <<>>
    /\ wres = [n |-> 0, err |-> "none"]
    /\ wire = (IF input.kind = "raw" THEN input.bytes ELSE <<>>)
    /\ InitRead
    /\ InitSession
    /\ InitLine
    /\ InitNoWriters
    /\ InitNoServer

Next ==
    \/ Writer_Write
    \/ Writer_WriteCommand
    \/ PeerClose
    \/ Read_Call
    \/ Read_Top
    \/ Read_Peek
    \/ Read_Discard
    \/ Read_SB
    \/ Read_SBPeek

Spec == Init /\ [][Next]_vars

\* ---- Session: window size ----
\* Session.GetWindowSize
GetWindowSize == <<termCols, termRows>>

\* Session.HasWindowSize
HasWindowSize == termCols > 0 /\ termRows > 0

\* Variant: the refusal test looks for WILL.
IsRefusal_OnWill(c, opt) == opt = NAWS /\ c = WILL

\* Line 84: the reply that ends the wait as "not supported".
IsRefusal(c, opt) == opt = NAWS /\ c = WONT

\* Lines 110-111: the decoded (termCols, termRows).
DecodeSize(payload) ==
    <<ShiftOr(payload[1], payload[2]), ShiftOr(payload[3], payload[4])>>

\* ---- Session.RequestWindowSize ----
RwsReturn(ret, via) ==
    /\ npc' = "done"
    /\ rwsRet' = ret
    /\ rwsVia' = via

\* s.WriteCommand(IAC, DO, NAWS) and time.After(2 * time.Second), lines 46-51.
RWS_Call ==
    /\ npc = "idle"
    /\ rpc = "idle"
    /\ rwsPos' = pos
    /\ LET r == SessionWriteCommand(IAC, DO, NAWS, isPTY, chunk)
       IN /\ outw' = outw \o r.w
          /\ wres' = [n |-> r.n, err |-> r.err]
          /\ IF r.err # "nil"
             THEN RwsReturn("failed to send DO NAWS", "send")
             ELSE /\ npc' = "select"
                  /\ UNCHANGED <<rwsRet, rwsVia>>
    /\ timedOut' = FALSE
    /\ UNCHANGED <<input, chunk, cmd, termCols, termRows, isPTY, streamVars, readVars>>
    /\ UNCHANGED <<lineVars, ioVars, lifeVars, serverVars, echoVars>>

\* The timer's channel becomes ready.  The two seconds pass while the task
\* is inside a read of the bufio buffer; the statements between the reads take
\* no time.
TimerFires ==
    /\ npc \notin {"idle", "select", "done"}
    /\ ~timedOut
    /\ timedOut' = TRUE
    /\ UNCHANGED <<npc, cmd, termCols, termRows, rwsRet, rwsVia, rwsPos, isPTY>>
    /\ UNCHANGED <<codecVars, streamVars, readVars>>
    /\ UNCHANGED <<lineVars, ioVars, lifeVars, serverVars, echoVars>>

\* select { case <-timeout: return nil; default: ... }, lines 54-58.
RWS_Select ==
    /\ npc = "select"
    /\ IF timedOut
       THEN RwsReturn("nil", "timeout")
       ELSE /\ npc' = "peek"
            /\ UNCHANGED <<rwsRet, rwsVia>>
    /\ UNCHANGED <<cmd, timedOut, termCols, termRows, rwsPos, isPTY>>
    /\ UNCHANGED <<codecVars, streamVars, readVars>>
    /\ UNCHANGED <<lineVars, ioVars, lifeVars, serverVars, echoVars>>

\* Peek(1), the IAC test and the ReadByte of the IAC, lines 59-71, 136-139.
RWS_Peek ==
    /\ npc = "peek"
    /\ IF BufEOF
       THEN /\ RwsReturn("nil", "eof")
            /\ UNCHANGED <<filled, pos>>
       ELSE /\ BufReady
            /\ \E f \in FillTo : filled' = f
            /\ IF NextByte = IAC
               THEN /\ pos' = pos + 1
                    /\ npc' = "cmd"
                    /\ UNCHANGED <<rwsRet, rwsVia>>
               ELSE /\ RwsReturn("nil", "data")
                    /\ UNCHANGED pos
    /\ UNCHANGED <<cmd, timedOut, termCols, termRows, rwsPos, isPTY>>
    /\ UNCHANGED <<wire, eof, codecVars, readVars>>
    /\ UNCHANGED <<lineVars, ioVars, lifeVars, serverVars, echoVars>>

\* cmd := ReadByte() and the switch, lines 73-79, 88, 133-135.
RWS_Cmd ==
    /\ npc = "cmd"
    /\ IF BufEOF
       THEN /\ RwsReturn("read command after IAC failed", "cmd")
            /\ UNCHANGED <<filled, pos, cmd>>
       ELSE /\ BufReady
            /\ \E f \in FillTo : filled' = f
            /\ pos' = pos + 1
            /\ cmd' = NextByte
            /\ npc' = CASE NextByte \in {WILL, WONT} -> "opt"
                        [] NextByte = SB -> "sbopt"
                        [] OTHER -> "select"
            /\ UNCHANGED <<rwsRet, rwsVia>>
    /\ UNCHANGED <<timedOut, termCols, termRows, rwsPos, isPTY>>
    /\ UNCHANGED <<wire, eof, codecVars, readVars>>
    /\ UNCHANGED <<lineVars, ioVars, lifeVars, serverVars, echoVars>>

\* case WILL, WONT: opt := ReadByte(), lines 80-87.
RWS_Opt ==
    /\ npc = "opt"
    /\ IF BufEOF
       THEN /\ RwsReturn("read option failed", "opt")
            /\ UNCHANGED <<filled, pos>>
       ELSE /\ BufReady
            /\ \E f \in FillTo : filled' = f
            /\ pos' = pos + 1
            /\ IF IsRefusal(cmd, NextByte)
               THEN RwsReturn("nil", "refused")
               ELSE /\ npc' = "select"
                    /\ UNCHANGED <<rwsRet, rwsVia>>
    /\ UNCHANGED <<cmd, timedOut, termCols, termRows, rwsPos, isPTY>>
    /\ UNCHANGED <<wire, eof, codecVars, readVars>>
    /\ UNCHANGED <<lineVars, ioVars, lifeVars, serverVars, echoVars>>

\* Variant: every subnegotiation is taken for the window size.
IsNawsOption_Any(opt) == TRUE

\* if opt == NAWS, line 93.
IsNawsOption(opt) == opt = NAWS

\* case SB: opt := ReadByte(), lines 89-93, 114.
RWS_SBOpt ==
    /\ npc = "sbopt"
    /\ IF BufEOF
       THEN /\ RwsReturn("read SB option failed", "sbopt")
            /\ UNCHANGED <<filled, pos>>
       ELSE /\ BufReady
            /\ \E f \in FillTo : filled' = f
            /\ pos' = pos + 1
            /\ npc' = IF IsNawsOption(NextByte) THEN "payload" ELSE "skip"
            /\ UNCHANGED <<rwsRet, rwsVia>>
    /\ UNCHANGED <<cmd, timedOut, termCols, termRows, rwsPos, isPTY>>
    /\ UNCHANGED <<wire, eof, codecVars, readVars>>
    /\ UNCHANGED <<lineVars, ioVars, lifeVars, serverVars, echoVars>>

\* io.ReadFull(buffered, p) with len(p) = k, then 'next': the bytes are taken
\* when the stream holds k more; a shorter rest is taken and the call waits,
\* failing once the stream has ended.
ReadFull(k, next, failure, via) ==
    IF Len(wire) - pos >= k
    THEN /\ pos' = pos + k
         /\ \E f \in (IF filled >= pos + k THEN {filled} ELSE (pos + k)..Len(wire)) :
               filled' = f
         /\ npc' = next
         /\ UNCHANGED <<rwsRet, rwsVia>>
    ELSE IF eof
    THEN /\ pos' = Len(wire)
         /\ filled' = Len(wire)
         /\ RwsReturn(failure, via)
    ELSE /\ filled < Len(wire) \/ pos < filled
         /\ pos' = Len(wire)
         /\ filled' = Len(wire)
         /\ UNCHANGED <<npc, rwsRet, rwsVia>>

\* payload := ReadFull(4), lines 95-98.
RWS_Payload ==
    /\ npc = "payload"
    /\ ReadFull(4, "terminator", "failed to read NAWS SB payload", "payload")
    /\ UNCHANGED <<cmd, timedOut, termCols, termRows, rwsPos, isPTY>>
    /\ UNCHANGED <<wire, eof, codecVars, readVars>>
    /\ UNCHANGED <<lineVars, ioVars, lifeVars, serverVars, echoVars>>

\* Variant: the second byte of the terminator is not looked at.
IsTerminator_FirstByteOnly(seHdr) == seHdr[1] = IAC

\* Line 106, negated: seHdr[0] == IAC && seHdr[1] == SE.
IsTerminator(seHdr) == seHdr[1] = IAC /\ seHdr[2] = SE

\* seHdr := ReadFull(2), the IAC SE test and the decoding, lines 101-113.
RWS_Terminator ==
    /\ npc = "terminator"
    /\ IF Len(wire) - pos >= 2
       THEN /\ pos' = pos + 2
            /\ \E f \in (IF filled >= pos + 2 THEN {filled} ELSE (pos + 2)..Len(wire)) :
                  filled' = f
            /\ IF ~IsTerminator(SubSeq(wire, pos + 1, pos + 2))
               THEN /\ RwsReturn("invalid NAWS SB terminator after payload", "terminator")
                    /\ UNCHANGED <<termCols, termRows>>
               ELSE /\ termCols' = DecodeSize(SubSeq(wire, pos - 3, pos))[1]
                    /\ termRows' = DecodeSize(SubSeq(wire, pos - 3, pos))[2]
                    /\ RwsReturn("nil", "naws")
       ELSE /\ ReadFull(2, "terminator", "failed to read NAWS SB terminator", "terminator")
            /\ UNCHANGED <<termCols, termRows>>
    /\ UNCHANGED <<cmd, timedOut, rwsPos, isPTY>>
    /\ UNCHANGED <<wire, eof, codecVars, readVars>>
    /\ UNCHANGED <<lineVars, ioVars, lifeVars, serverVars, echoVars>>

\* b := ReadByte() in the skip loop, lines 116-121.
RWS_Skip ==
    /\ npc = "skip"
    /\ IF BufEOF
       THEN /\ RwsReturn("skip SB error", "skip")
            /\ UNCHANGED <<filled, pos>>
       ELSE /\ BufReady
            /\ \E f \in FillTo : filled' = f
            /\ pos' = pos + 1
            /\ npc' = IF NextByte = IAC THEN "skipnext" ELSE "skip"
            /\ UNCHANGED <<rwsRet, rwsVia>>
    /\ UNCHANGED <<cmd, timedOut, termCols, termRows, rwsPos, isPTY>>
    /\ UNCHANGED <<wire, eof, codecVars, readVars>>
    /\ UNCHANGED <<lineVars, ioVars, lifeVars, serverVars, echoVars>>

\* Variant: a doubled IAC in the payload also ends the skip loop.
SkipEnds_OnIAC(b) == b = SE \/ b = IAC

\* if nextB == SE { break }, lines 127-129.
SkipEnds(b) == b = SE

\* nextB := ReadByte() after an IAC in the skip loop, lines 122-130.
RWS_SkipNext ==
    /\ npc = "skipnext"
    /\ IF BufEOF
       THEN /\ RwsReturn("skip SB error", "skip")
            /\ UNCHANGED <<filled, pos>>
       ELSE /\ BufReady
            /\ \E f \in FillTo : filled' = f
            /\ pos' = pos + 1
            /\ npc' = IF SkipEnds(NextByte) THEN "select" ELSE "skip"
            /\ UNCHANGED <<rwsRet, rwsVia>>
    /\ UNCHANGED <<cmd, timedOut, termCols, termRows, rwsPos, isPTY>>
    /\ UNCHANGED <<wire, eof, codecVars, readVars>>
    /\ UNCHANGED <<lineVars, ioVars, lifeVars, serverVars, echoVars>>

\* Session.Read: the handler reads once RequestWindowSize has run to completion.
Session_Read ==
    /\ npc = "done"
    /\ Read_Call

RWS_Step ==
    \/ RWS_Select
    \/ RWS_Peek
    \/ RWS_Cmd
    \/ RWS_Opt
    \/ RWS_SBOpt
    \/ RWS_Payload
    \/ RWS_Terminator
    \/ RWS_Skip
    \/ RWS_SkipNext

\* ---- the peer's reply to DO NAWS ----
NawsPayloads == [1..4 -> {0, IAC}] \cup {<<0, 80, 0, 24>>}

ReplyKinds == {"will", "wont", "do", "naws", "badnaws", "othersub", "data", "escaped"}

ReplyItem(kind, p) ==
    CASE kind = "will" -> <<IAC, WILL, NAWS>>
      [] kind = "wont" -> <<IAC, WONT, NAWS>>
      [] kind = "do" -> <<IAC, DO, ECHO>>
      [] kind = "naws" -> <<IAC, SB, NAWS>> \o p \o <<IAC, SE>>
      [] kind = "badnaws" -> <<IAC, SB, NAWS>> \o p \o <<IAC, IAC>>
      [] kind = "othersub" -> <<IAC, SB, ECHO, IAC, IAC, IAC, SE>>
      [] kind = "data" -> <<65>>
      [] kind = "escaped" -> <<IAC, IAC>>

Replies ==
    {Concat([i \in 1..Len(ks) |-> ReplyItem(ks[i], p)]) :
        ks \in SeqsUpTo(ReplyKinds, MaxReply), p \in NawsPayloads}

InitNaws ==
    /\ input \in {[kind |-> "raw", bytes |-> r] : r \in Replies}
    /\ chunk = MaxChunk
    /\ outw = <<>>
    /\ wres = [n |-> 0, err |-> "none"]
    /\ wire = input.bytes
    /\ InitRead
    /\ npc = "idle"
    /\ cmd = 0
    /\ timedOut = FALSE
    /\ termCols = 0
    /\ termRows = 0
    /\ rwsRet = "none"
    /\ rwsVia = "none"
    /\ rwsPos = -1
    /\ isPTY \in BOOLEAN
    /\ InitLine
    /\ InitNoWriters
    /\ InitNoServer

NextNaws ==
    \/ RWS_Call
    \/ TimerFires
    \/ RWS_Step
    \/ PeerClose
    \/ Session_Read
    \/ Read_Top
    \/ Read_Peek
    \/ Read_Discard
    \/ Read_SB
    \/ Read_SBPeek

SpecNaws == InitNaws /\ [][NextNaws]_vars

\* The scheduler runs the task inside RequestWindowSize and time passes.
FairSpecNaws == SpecNaws /\ WF_vars(RWS_Step) /\ WF_vars(TimerFires)

\* ---- replies cut short by the end of the stream ----
\* Every reply of up to MaxReply items (the NAWS payload being 80 x 24), cut
\* after any number of bytes: the peer closes in the middle of a sequence.
Prefixes(s) == {Take(s, k) : k \in 0..Len(s)}

CutReplies ==
    UNION {Prefixes(Concat([i \in 1..Len(ks) |-> ReplyItem(ks[i], <<0, 80, 0, 24>>)])) :
              ks \in SeqsUpTo(ReplyKinds, MaxReply)}

InitNawsCut ==
    /\ input \in {[kind |-> "raw", bytes |-> r] : r \in CutReplies}
    /\ chunk = MaxChunk
    /\ outw = <<>>
    /\ wres = [n |-> 0, err |-> "none"]
    /\ wire = input.bytes
    /\ InitRead
    /\ InitSession
    /\ InitLine
    /\ InitNoWriters
    /\ InitNoServer

SpecNawsCut == InitNawsCut /\ [][NextNaws]_vars

\* ---- RequestWindowSize on a session that has a window size already ----
\* The sizes the session holds when RequestWindowSize is called: none, or
\* the one an earlier call has decoded.
EarlierSizes == {<<0, 0>>, <<24, 80>>}

InitNawsAgain ==
    /\ input \in {[kind |-> "raw", bytes |-> r, size |-> z] : r \in CutReplies, z \in EarlierSizes}
    /\ chunk = MaxChunk
    /\ outw = <<>>
    /\ wres = [n |-> 0, err |-> "none"]
    /\ wire = input.bytes
    /\ InitRead
    /\ npc = "idle"
    /\ cmd = 0
    /\ timedOut = FALSE
    /\ termCols = input.size[1]
    /\ termRows = input.size[2]
    /\ rwsRet = "none"
    /\ rwsVia = "none"
    /\ rwsPos = -1
    /\ isPTY = FALSE
    /\ InitLine
    /\ InitNoWriters
    /\ InitNoServer

SpecNawsAgain == InitNawsAgain /\ [][NextNaws]_vars

\* ---- replies that begin with subnegotiations for another option ----
MaxSubs == 2  \* unrelated subnegotiations ahead of the NAWS reply

OtherSubs == {<<IAC, SB, ECHO>> \o q \o <<IAC, SE>> : q \in SubPayloads \cup {<<65>>}}

NawsReply(p) == <<255, 251, 31, 255, 250, 31>> \o p \o <<255, 240>>

\* One or more unrelated subnegotiations, then IAC WILL NAWS and the NAWS
\* subnegotiation, then nothing or a byte of data.
SkipReplies ==
    {Concat(ss) \o NawsReply(p) \o t :
        ss \in SeqsUpTo(OtherSubs, MaxSubs) \ {<<>>}, p \in NawsPayloads, t \in {<<>>, <<65>>}}

InitNawsSkip ==
    /\ input \in {[kind |-> "raw", bytes |-> r] : r \in SkipReplies}
    /\ chunk = MaxChunk
    /\ outw = <<>>
    /\ wres = [n |-> 0, err |-> "none"]
    /\ wire = input.bytes
    /\ InitRead
    /\ InitSession
    /\ InitLine
    /\ InitNoWriters
    /\ InitNoServer

SpecNawsSkip == InitNawsSkip /\ [][NextNaws]_vars

(***************************************************************************)
(* Session.Write and Session.WriteCommand, with and without isPTY          *)
(***************************************************************************)
\* What a handler writes: letters, CR, LF and the byte 255; command bytes
\* that include LF and CR.
TextBytes == {65, CR, NL, IAC}

CommandBytes == {ECHO, DO, IAC, NL, CR}

SessionInputs ==
    {[kind |-> "data", bytes |-> d] : d \in SeqsUpTo(TextBytes, MaxText)}
    \cup {[kind |-> "cmd", bytes |-> t] : t \in [1..3 -> CommandBytes]}

\* s.Write(input.bytes): what reaches the transport and what is returned.
Session_Write ==
    /\ input.kind = "data"
    /\ wres.err = "none"
    /\ LET r == SessionWrite(input.bytes, isPTY, chunk)
       IN /\ outw' = r.w
          /\ wres' = [n |-> r.n, err |-> r.err]
    /\ UNCHANGED <<input, chunk, streamVars, readVars>>
    /\ UNCHANGED <<npc, cmd, timedOut, termCols, termRows, rwsRet, rwsVia, rwsPos, isPTY>>
    /\ UNCHANGED <<lineVars, ioVars, lifeVars, serverVars, echoVars>>

\* s.WriteCommand(c, o, a).
Session_WriteCommand ==
    /\ input.kind = "cmd"
    /\ wres.err = "none"
    /\ LET r == SessionWriteCommand(input.bytes[1], input.bytes[2], input.bytes[3], isPTY, chunk)
       IN /\ outw' = r.w
          /\ wres' = [n |-> r.n, err |-> r.err]
    /\ UNCHANGED <<input, chunk, streamVars, readVars>>
    /\ UNCHANGED <<npc, cmd, timedOut, termCols, termRows, rwsRet, rwsVia, rwsPos, isPTY>>
    /\ UNCHANGED <<lineVars, ioVars, lifeVars, serverVars, echoVars>>

\* A Session, in either mode, about to write one block or one command.
InitSessionWrite ==
    /\ input \in SessionInputs
    /\ chunk \in 1..MaxChunk
    /\ outw = <<>>
    /\ wres = [n |-> 0, err |-> "none"]
    /\ wire = <<>>
    /\ InitRead
    /\ npc = "idle"
    /\ cmd = 0
    /\ timedOut = FALSE
    /\ termCols = 0
    /\ termRows = 0
    /\ rwsRet = "none"
    /\ rwsVia = "none"
    /\ rwsPos = -1
    /\ isPTY \in BOOLEAN
    /\ InitLine
    /\ InitNoWriters
    /\ InitNoServer

NextSessionWrite ==
    \/ Session_Write
    \/ Session_WriteCommand

SpecSessionWrite == InitSessionWrite /\ [][NextSessionWrite]_vars

(***************************************************************************)
(* reader.go: ReadLine over the telnet reader                              *)
(***************************************************************************)
\* What the peer sends to a ReadLine caller: a letter, CR, LF, an escaped
\* 255, a negotiation, an IAC with a byte that is no command.
LineItems == {<<65>>, <<CR>>, <<NL>>, <<IAC, IAC>>, <<IAC, WILL, ECHO>>, <<IAC, ECHO>>}

LineStreams == {Concat(items) : items \in SeqsUpTo(LineItems, MaxLine)}

\* Variant: a bare LF at the end is removed as well.
TrimLine_BareLF(l) ==
    IF Len(l) >= 2 /\ l[Len(l) - 1] = CR /\ l[Len(l)] = NL THEN Take(l, Len(l) - 2)
    ELSE Take(l, Len(l) - 1)

\* "Remove the \r\n from the end of the string", lines 159-164.
TrimLine(l) ==
    IF Len(l) >= 2 /\ l[Len(l) - 1] = CR /\ l[Len(l)] = NL THEN Take(l, Len(l) - 2)
    ELSE l

\* Variant: the text read so far is returned with the error.
ErrorText_Partial(l) == l

\* return "", err, line 148.
ErrorText(l) == <<>>

\* ReadLine is called, lines 138-141; a call that returned an error is the
\* last one.
RL_Call ==
    /\ lpc = "idle"
    /\ rpc = "idle"
    /\ lineErr = "none"
    /\ lpc' = "read"
    /\ line' = <<>>
    /\ UNCHANGED <<lineRet, lineStr, lineErr, lineEnds>>
    /\ UNCHANGED <<telnetVars, serverVars, echoVars, ioVars, lifeVars>>

\* reader.Read(p) with len(p) = 1 is entered, line 144.
RL_Read ==
    /\ lpc = "read"
    /\ rpc = "idle"
    /\ rlen' = 1
    /\ rpc' = "top"
    /\ rn' = 0
    /\ callPos' = pos
    /\ lpc' = "wait"
    /\ UNCHANGED <<delivered, lastN, lastErr, corruptAt>>
    /\ UNCHANGED <<line, lineRet, lineStr, lineErr, lineEnds>>
    /\ UNCHANGED <<codecVars, streamVars, nawsVars, serverVars, echoVars, ioVars, lifeVars>>

\* reader.Read has returned n, err: lines 145-155 and, after the loop,
\* 158-164.
RL_Return ==
    /\ lpc = "wait"
    /\ rpc = "idle"
    /\ IF lastN <= 0 /\ lastErr = "nil"
       THEN /\ lpc' = "read"
            /\ UNCHANGED <<line, lineRet, lineStr, lineErr, lineEnds>>
       ELSE IF lastN <= 0
       THEN /\ lpc' = "idle"
            /\ line' = <<>>
            /\ lineStr' = ErrorText(line)
            /\ lineErr' = lastErr
            /\ UNCHANGED <<lineRet, lineEnds>>
       ELSE LET l == Append(line, delivered[Len(delivered)])
            IN IF delivered[Len(delivered)] = NL
               THEN /\ lpc' = "idle"
                    /\ line' = <<>>
                    /\ lineRet' = Append(lineRet, TrimLine(l))
                    /\ lineStr' = TrimLine(l)
                    /\ lineEnds' = Append(lineEnds, pos)
                    /\ UNCHANGED lineErr
               ELSE /\ lpc' = "read"
                    /\ line' = l
                    /\ UNCHANGED <<lineRet, lineStr, lineErr, lineEnds>>
    /\ UNCHANGED <<telnetVars, serverVars, echoVars, ioVars, lifeVars>>

\* A peer's stream read line by line.
InitReadLine ==
    /\ input \in {[kind |-> "raw", bytes |-> s] : s \in LineStreams}
    /\ chunk = MaxChunk
    /\ outw = <<>>
    /\ wres = [n |-> 0, err |-> "none"]
    /\ wire = input.bytes
    /\ InitRead
    /\ InitSession
    /\ InitLine
    /\ InitNoWriters
    /\ InitNoServer

NextReadLine ==
    \/ RL_Call
    \/ RL_Read
    \/ RL_Return
    \/ Read_Top
    \/ Read_Peek
    \/ Read_Discard
    \/ PeerClose

SpecReadLine == InitReadLine /\ [][NextReadLine]_vars

(***************************************************************************)
(* A Session used by one handler: RequestWindowSize, Read, ReadLine,       *)
(* Write and WriteCommand in any order, one call at a time.                *)
(***************************************************************************)
\* What the peer sends: IAC WILL NAWS, two NAWS subnegotiations, a
\* subnegotiation of ECHO with a four-byte payload, a line feed.
SessionItems ==
    {<<IAC, WILL, NAWS>>,
     <<IAC, SB, NAWS, 0, 80, 0, 24, IAC, SE>>,
     <<IAC, SB, NAWS, 0, 24, 0, 80, IAC, SE>>,
     <<IAC, SB, ECHO, 0, 80, 0, 24, IAC, SE>>,
     <<NL>>}

MaxOut == 4       \* bytes on the outbound wire after which the handler writes no more

\* No call of the handler is under way.
BetweenCalls == npc \in {"idle", "done"} /\ lpc = "idle" /\ rpc = "idle"

\* s.RequestWindowSize()
S_RequestWindowSize == BetweenCalls /\ RWS_Call

\* s.Read(data)
S_Read == BetweenCalls /\ Read_Call

\* s.ReadLine()
S_ReadLine == BetweenCalls /\ RL_Call

\* s.Write(d) and s.WriteLine(d), which is s.Write of the joined text.
S_Write ==
    /\ BetweenCalls
    /\ Len(outw) < MaxOut
    /\ \E d \in {<<NL>>, <<IAC>>} :
          LET r == SessionWrite(d, isPTY, chunk)
          IN /\ outw' = outw \o r.w
             /\ wres' = [n |-> r.n, err |-> r.err]
    /\ UNCHANGED <<input, chunk, streamVars, readVars, nawsVars>>
    /\ UNCHANGED <<lineVars, ioVars, lifeVars, serverVars, echoVars>>

\* s.WriteCommand(IAC, WILL, ECHO)
S_WriteCommand ==
    /\ BetweenCalls
    /\ Len(outw) < MaxOut
    /\ LET r == SessionWriteCommand(IAC, WILL, ECHO, isPTY, chunk)
       IN /\ outw' = outw \o r.w
          /\ wres' = [n |-> r.n, err |-> r.err]
    /\ UNCHANGED <<input, chunk, streamVars, readVars, nawsVars>>
    /\ UNCHANGED <<lineVars, ioVars, lifeVars, serverVars, echoVars>>

\* A new Session, lines 189-194 of server.go: no window size, not a PTY.
InitSessionCalls ==
    /\ input \in {[kind |-> "raw", bytes |-> r] : r \in ScriptsOf(SessionItems, MaxReply)}
    /\ chunk = MaxChunk
    /\ outw = <<>>
    /\ wres = [n |-> 0, err |-> "none"]
    /\ wire = input.bytes
    /\ InitRead
    /\ InitSession
    /\ InitLine
    /\ InitNoWriters
    /\ InitNoServer

NextSessionCalls ==
    \/ S_RequestWindowSize
    \/ S_Read
    \/ S_ReadLine
    \/ S_Write
    \/ S_WriteCommand
    \/ TimerFires
    \/ RWS_Step
    \/ RL_Read
    \/ RL_Return
    \/ Read_Top
    \/ Read_Peek
    \/ Read_Discard
    \/ Read_SB
    \/ Read_SBPeek
    \/ PeerClose

SpecSessionCalls == InitSessionCalls /\ [][NextSessionCalls]_vars

(***************************************************************************)
(* server.go: Server.Serve, Server.handle, Server.Shutdown                 *)
(***************************************************************************)
\* server.handles[k] = v
Put(h, k, v) == [x \in DOMAIN h \cup {k} |-> IF x = k THEN v ELSE h[x]]

\* Variant: the entry is left in the map.
Delete_Nothing(h, k) == h

\* delete(server.handles, k)
Delete(h, k) == [x \in DOMAIN h \ {k} |-> h[x]]

\* No unrecovered panic has ended the process.
Alive == fault = "none"

Accepted == {c \in Conns : tpc[c] # "none"}

\* The remote addresses a new connection can come from: a fresh one, or the
\* one of a connection whose transport is closed; never the one of an open
\* transport.
FreeAddrs(c) ==
    ({c} \cup {addr[d] : d \in {e \in Accepted : closed[e]}})
        \ {addr[d] : d \in {e \in Accepted : ~closed[e]}}

\* One turn of the accept loop, lines 84-117: Accept, the lifecycle token
\* (with a deadline when Timeout > 0), go server.handle(conn, handler).
Accept(c) ==
    /\ Alive
    /\ listener = "open"
    /\ tpc[c] = "none"
    /\ \A d \in Conns : d < c => tpc[d] # "none"
    /\ \E a \in FreeAddrs(c) : addr' = [addr EXCEPT ![c] = a]
    /\ tpc' = [tpc EXCEPT ![c] = "start"]
    /\ UNCHANGED <<listener, hasTimeout, wpc, done, closed, handles, sent, spc, wg,
                   visited, pending, shRunning, fault>>
    /\ UNCHANGED <<echoVars, lineVars, ioVars, lifeVars, telnetVars>>

\* The deadline of a token made by context.WithDeadline passes, line 94.
DeadlineExpires(c) ==
    /\ Alive
    /\ hasTimeout
    /\ tpc[c] # "none"
    /\ ~done[c]
    /\ done' = [done EXCEPT ![c] = TRUE]
    /\ UNCHANGED <<listener, hasTimeout, tpc, wpc, closed, addr, handles, sent, spc,
                   wg, visited, pending, shRunning, fault>>
    /\ UNCHANGED <<echoVars, lineVars, ioVars, lifeVars, telnetVars>>

\* ---- Server.handle ----
\* The deferred calls are set up and the watching goroutine is started,
\* lines 148-177.
Handle_Start(c) ==
    /\ Alive
    /\ tpc[c] = "start"
    /\ tpc' = [tpc EXCEPT ![c] = "negotiate"]
    /\ wpc' = [wpc EXCEPT ![c] = "register"]
    /\ UNCHANGED <<listener, hasTimeout, done, closed, addr, handles, sent, spc, wg,
                   visited, pending, shRunning, fault>>
    /\ UNCHANGED <<echoVars, lineVars, ioVars, lifeVars, telnetVars>>

\* The outcomes of WriteCommand(w, IAC, WONT, SGA), line 185: an open
\* transport takes the bytes, or breaks after taking some of them; a
\* transport closed on this side takes none.
NegotiateResults(c) ==
    LET r == WriteCommand(IAC, WONT, SGA, MaxChunk)
    IN IF closed[c]
       THEN {[w |-> <<>>, err |-> "use of closed network connection"]}
       ELSE {[w |-> r.w, err |-> r.err]}
                \cup {[w |-> Take(r.w, k), err |-> "broken pipe"] : k \in 0..(Len(r.w) - 1)}

\* Variant: the error of the write is not looked at.
AfterNegotiate_Ignored(err) == "handler"

\* if _, err := WriteCommand(...); err != nil { return }, lines 185-187.
AfterNegotiate(err) == IF err # "nil" THEN "unsent" ELSE "handler"

\* WriteCommand(w, IAC, WONT, SGA) and the test of its error, lines 185-187.
Handle_Negotiate(c) ==
    /\ Alive
    /\ tpc[c] = "negotiate"
    /\ \E r \in NegotiateResults(c) :
          /\ sent' = [sent EXCEPT ![c] = sent[c] \o r.w]
          /\ tpc' = [tpc EXCEPT ![c] = AfterNegotiate(r.err)]
    /\ UNCHANGED <<listener, hasTimeout, wpc, done, closed, addr, handles, spc, wg,
                   visited, pending, shRunning, fault>>
    /\ UNCHANGED <<echoVars, lineVars, ioVars, lifeVars, telnetVars>>

\* handler.ServeTELNET returns, line 189.
Handler_Return(c) ==
    /\ Alive
    /\ tpc[c] = "handler"
    /\ tpc' = [tpc EXCEPT ![c] = "returned"]
    /\ UNCHANGED <<listener, hasTimeout, wpc, done, closed, addr, handles, sent, spc,
                   wg, visited, pending, shRunning, fault>>
    /\ UNCHANGED <<echoVars, lineVars, ioVars, lifeVars, telnetVars>>

\* handler.ServeTELNET panics, line 189: the deferred calls run.
Handler_Panic(c) ==
    /\ Alive
    /\ tpc[c] = "handler"
    /\ tpc' = [tpc EXCEPT ![c] = "panicked"]
    /\ UNCHANGED <<listener, hasTimeout, wpc, done, closed, addr, handles, sent, spc,
                   wg, visited, pending, shRunning, fault>>
    /\ UNCHANGED <<echoVars, lineVars, ioVars, lifeVars, telnetVars>>

\* handle is left - the write failed, the handler returned or it panicked -
\* and the last deferred call runs first: conn.cancel(), lines 175-177.
Handle_Cancel(c) ==
    /\ Alive
    /\ tpc[c] \in {"unsent", "returned", "panicked"}
    /\ done' = [done EXCEPT ![c] = TRUE]
    /\ tpc' = [tpc EXCEPT ![c] = IF tpc[c] = "panicked" THEN "recover" ELSE "close"]
    /\ UNCHANGED <<listener, hasTimeout, wpc, closed, addr, handles, sent, spc, wg,
                   visited, pending, shRunning, fault>>
    /\ UNCHANGED <<echoVars, lineVars, ioVars, lifeVars, telnetVars>>

\* recover() in the deferred function of lines 151-155 stops the panic.
Recovered == TRUE

\* The deferred function of lines 151-155 during a panic; a panic that is
\* not recovered ends the process.
Handle_Recover(c) ==
    /\ Alive
    /\ tpc[c] = "recover"
    /\ IF Recovered
       THEN /\ tpc' = [tpc EXCEPT ![c] = "close"]
            /\ UNCHANGED fault
       ELSE /\ fault' = "panic in handler"
            /\ UNCHANGED tpc
    /\ UNCHANGED <<listener, hasTimeout, wpc, done, closed, addr, handles, sent, spc,
                   wg, visited, pending, shRunning>>
    /\ UNCHANGED <<echoVars, lineVars, ioVars, lifeVars, telnetVars>>

\* The first deferred call runs last: conn.Close(), line 148.
Handle_Close(c) ==
    /\ Alive
    /\ tpc[c] = "close"
    /\ closed' = [closed EXCEPT ![c] = TRUE]
    /\ tpc' = [tpc EXCEPT ![c] = "ended"]
    /\ UNCHANGED <<listener, hasTimeout, wpc, done, addr, handles, sent, spc, wg,
                   visited, pending, shRunning, fault>>
    /\ UNCHANGED <<echoVars, lineVars, ioVars, lifeVars, telnetVars>>

\* ---- the goroutine started by handle, lines 158-173 ----
\* server.handles[conn.RemoteAddr().String()] = conn.cancel, under handlesMu.
Watch_Register(c) ==
    /\ Alive
    /\ wpc[c] = "register"
    /\ handles' = Put(handles, addr[c], c)
    /\ wpc' = [wpc EXCEPT ![c] = "wait"]
    /\ UNCHANGED <<listener, hasTimeout, tpc, done, closed, addr, sent, spc, wg,
                   visited, pending, shRunning, fault>>
    /\ UNCHANGED <<echoVars, lineVars, ioVars, lifeVars, telnetVars>>

\* Variant: the goroutine waits for handle to return.
TokenDone_AfterReturn(c) == done[c] /\ tpc[c] \in {"close", "ended"}

\* <-conn.ctx.Done() is ready, line 163.
TokenDone(c) == done[c]

\* <-conn.ctx.Done() and conn.Conn.Close(), lines 163-168.
Watch_Close(c) ==
    /\ Alive
    /\ wpc[c] = "wait"
    /\ TokenDone(c)
    /\ closed' = [closed EXCEPT ![c] = TRUE]
    /\ wpc' = [wpc EXCEPT ![c] = "delete"]
    /\ UNCHANGED <<listener, hasTimeout, tpc, done, addr, handles, sent, spc, wg,
                   visited, pending, shRunning, fault>>
    /\ UNCHANGED <<echoVars, lineVars, ioVars, lifeVars, telnetVars>>

\* delete(server.handles, conn.RemoteAddr().String()), under handlesMu.
Watch_Delete(c) ==
    /\ Alive
    /\ wpc[c] = "delete"
    /\ handles' = Delete(handles, addr[c])
    /\ wpc' = [wpc EXCEPT ![c] = "ended"]
    /\ UNCHANGED <<listener, hasTimeout, tpc, done, closed, addr, sent, spc, wg,
                   visited, pending, shRunning, fault>>
    /\ UNCHANGED <<echoVars, lineVars, ioVars, lifeVars, telnetVars>>

\* ---- Server.Shutdown ----
\* The handler of c has been invoked and has not returned.
HandlerRunning(c) == tpc[c] = "handler"

\* server.listener.Close(), lines 125-129.
Shutdown_Call ==
    /\ Alive
    /\ spc = "idle"
    /\ listener' = "closed"
    /\ spc' = "len"
    /\ shRunning' = {c \in Conns : HandlerRunning(c)}
    /\ UNCHANGED <<hasTimeout, tpc, wpc, done, closed, addr, handles, sent, wg,
                   visited, pending, fault>>
    /\ UNCHANGED <<echoVars, lineVars, ioVars, lifeVars, telnetVars>>

\* wg.Add(len(server.handles)), line 132; handlesMu is not taken.
Shutdown_Len ==
    /\ Alive
    /\ spc = "len"
    /\ wg' = Cardinality(DOMAIN handles)
    /\ spc' = "range"
    /\ UNCHANGED <<listener, hasTimeout, tpc, wpc, done, closed, addr, handles, sent,
                   visited, pending, shRunning, fault>>
    /\ UNCHANGED <<echoVars, lineVars, ioVars, lifeVars, telnetVars>>

\* One turn of the range loop, lines 134-139: the next key of the map as it
\* is now, and a goroutine that will call the cancel found there (each turn
\* has its own 'cancel', as loop variables have from Go 1.22 on).
Shutdown_Range ==
    /\ Alive
    /\ spc = "range"
    /\ \E k \in DOMAIN handles \ visited :
          /\ visited' = visited \cup {k}
          /\ pending' = pending \cup {handles[k]}
    /\ UNCHANGED <<listener, hasTimeout, tpc, wpc, done, closed, addr, handles, sent,
                   spc, wg, shRunning, fault>>
    /\ UNCHANGED <<echoVars, lineVars, ioVars, lifeVars, telnetVars>>

\* The range loop finds no further key.
Shutdown_RangeEnd ==
    /\ Alive
    /\ spc = "range"
    /\ DOMAIN handles \subseteq visited
    /\ spc' = "wait"
    /\ UNCHANGED <<listener, hasTimeout, tpc, wpc, done, closed, addr, handles, sent,
                   wg, visited, pending, shRunning, fault>>
    /\ UNCHANGED <<echoVars, lineVars, ioVars, lifeVars, telnetVars>>

\* go func() { defer wg.Done(); cancel() }(), lines 135-138.  Done panics
\* when it takes the counter below zero.
Canceller(c) ==
    /\ Alive
    /\ c \in pending
    /\ pending' = pending \ {c}
    /\ done' = [done EXCEPT ![c] = TRUE]
    /\ wg' = wg - 1
    /\ fault' = IF wg - 1 < 0 THEN "sync: negative WaitGroup counter" ELSE fault
    /\ UNCHANGED <<listener, hasTimeout, tpc, wpc, closed, addr, handles, sent, spc,
                   visited, shRunning>>
    /\ UNCHANGED <<echoVars, lineVars, ioVars, lifeVars, telnetVars>>

\* wg.Wait() and return nil, lines 141-143.
Shutdown_Wait ==
    /\ Alive
    /\ spc = "wait"
    /\ wg = 0
    /\ spc' = "returned"
    /\ UNCHANGED <<listener, hasTimeout, tpc, wpc, done, closed, addr, handles, sent,
                   wg, visited, pending, shRunning, fault>>
    /\ UNCHANGED <<echoVars, lineVars, ioVars, lifeVars, telnetVars>>

\* The codec variables of the other specifications stand still.
InitNoCodec ==
    /\ input = [kind |-> "raw", bytes |-> <<>>]
    /\ chunk = MaxChunk
    /\ outw = <<>>
    /\ wres = [n |-> 0, err |-> "none"]
    /\ wire = <<>>
    /\ InitRead
    /\ InitSession
    /\ InitLine
    /\ InitNoWriters

InitServer ==
    /\ InitNoCodec
    /\ InitListening
    /\ hasTimeout \in BOOLEAN
    /\ inb = [c \in Conns |-> <<>>]

\* A cancel operation read from the registry is invoked, line 137, by
\* whoever holds it: the connection has registered it at some time.
Registry_Cancel(c) ==
    /\ Alive
    /\ wpc[c] \in {"wait", "delete", "ended"}
    /\ ~done[c]
    /\ done' = [done EXCEPT ![c] = TRUE]
    /\ UNCHANGED <<listener, hasTimeout, tpc, wpc, closed, addr, handles, sent, spc, wg,
                   visited, pending, shRunning, fault>>
    /\ UNCHANGED <<echoVars, lineVars, ioVars, lifeVars, telnetVars>>

\* The steps of one connection's task and of its watching goroutine.
HandleStep(c) ==
    \/ Handle_Start(c)
    \/ Handle_Negotiate(c)
    \/ Handle_Cancel(c)
    \/ Handle_Recover(c)
    \/ Handle_Close(c)

WatchStep(c) ==
    \/ Watch_Register(c)
    \/ Watch_Close(c)
    \/ Watch_Delete(c)

ShutdownStep ==
    \/ Shutdown_Len
    \/ Shutdown_Range
    \/ Shutdown_RangeEnd
    \/ Shutdown_Wait

\* The connections of a serving Server: accepted, handled, cancelled.
NextServer ==
    \/ \E c \in Conns : Accept(c)
    \/ \E c \in Conns : DeadlineExpires(c)
    \/ \E c \in Conns : HandleStep(c)
    \/ \E c \in Conns : Handler_Return(c)
    \/ \E c \in Conns : Handler_Panic(c)
    \/ \E c \in Conns : WatchStep(c)
    \/ \E c \in Conns : Registry_Cancel(c)

SpecServer == InitServer /\ [][NextServer]_vars

\* The scheduler runs every goroutine that can take a step; accepting, the
\* handler's return or panic, the deadline and the cancel calls are up to the
\* environment.
FairSpecServer ==
    /\ SpecServer
    /\ \A c \in Conns : WF_vars(HandleStep(c)) /\ WF_vars(WatchStep(c))

\* A Server without Timeout whose registered cancel operations nobody calls:
\* only the return of handle cancels a token.
InitUncancelled == InitNoCodec /\ InitListening /\ hasTimeout = FALSE /\ inb = [c \in Conns |-> <<>>]

NextUncancelled ==
    \/ \E c \in Conns : Accept(c)
    \/ \E c \in Conns : HandleStep(c)
    \/ \E c \in Conns : Handler_Return(c)
    \/ \E c \in Conns : Handler_Panic(c)
    \/ \E c \in Conns : WatchStep(c)

SpecUncancelled == InitUncancelled /\ [][NextUncancelled]_vars

FairSpecUncancelled ==
    /\ SpecUncancelled
    /\ \A c \in Conns : WF_vars(HandleStep(c)) /\ WF_vars(WatchStep(c))

\* The same Server with Shutdown called on it, once, at any time.
NextShutdown ==
    \/ \E c \in Conns : Accept(c)
    \/ \E c \in Conns : DeadlineExpires(c)
    \/ \E c \in Conns : HandleStep(c)
    \/ \E c \in Conns : Handler_Return(c)
    \/ \E c \in Conns : Handler_Panic(c)
    \/ \E c \in Conns : WatchStep(c)
    \/ Shutdown_Call
    \/ ShutdownStep
    \/ \E c \in Conns : Canceller(c)

SpecShutdown == InitServer /\ [][NextShutdown]_vars

\* Shutdown and the goroutines it starts are scheduled as well.
FairSpecShutdown ==
    /\ SpecShutdown
    /\ \A c \in Conns : WF_vars(HandleStep(c)) /\ WF_vars(WatchStep(c)) /\ WF_vars(Canceller(c))
    /\ WF_vars(ShutdownStep)

\* ---- Server.Serve and Server.Shutdown over the life of one Server ----
\* Variant: a listener that has been closed counts as not set.
AlreadyListening_WhileOpen == served # 0 /\ listener = "open"

\* if server.listener != nil, line 70.
AlreadyListening == served # 0

\* Serve(listener) up to its accept loop, lines 70-76: the test of
\* server.listener, then the listener and a new registry are stored.
Serve_Call(i) ==
    /\ Alive
    /\ serving[i] = "none"
    /\ \A j \in Serves : j < i => serving[j] # "none"
    /\ IF AlreadyListening
       THEN /\ serving' = [serving EXCEPT ![i] = "server already listening"]
            /\ UNCHANGED <<served, listener, handles>>
       ELSE /\ serving' = [serving EXCEPT ![i] = "accepting"]
            /\ served' = i
            /\ listener' = "open"
            /\ handles' = [k \in {} |-> 0]
    /\ UNCHANGED <<hasTimeout, tpc, wpc, done, closed, addr, sent, spc, wg, visited,
                   pending, shRunning, fault>>
    /\ UNCHANGED <<echoVars, lineVars, ioVars, telnetVars>>

\* listener.Accept() returns an error, lines 85-88 - the listener has been
\* closed, or accepting fails otherwise - and Serve returns it; the deferred
\* listener.Close() of line 74 runs.
Serve_Return(i) ==
    /\ Alive
    /\ serving[i] = "accepting"
    /\ serving' = [serving EXCEPT ![i] = IF listener = "closed"
                                          THEN "use of closed network connection"
                                          ELSE "accept failed"]
    /\ listener' = "closed"
    /\ UNCHANGED <<served, hasTimeout, tpc, wpc, done, closed, addr, handles, sent, spc,
                   wg, visited, pending, shRunning, fault>>
    /\ UNCHANGED <<echoVars, lineVars, ioVars, telnetVars>>

\* One turn of the accept loop of the Serve call that is in it.
Serve_Accept(c) ==
    /\ served # 0
    /\ serving[served] = "accepting"
    /\ Accept(c)

\* Variant: closing a closed listener reports nothing.
CloseFails_Never == FALSE

\* server.listener.Close() returns an error, line 126: the listeners of
\* package net do when they are closed already.
CloseFails == listener = "closed"

\* Shutdown up to its WaitGroup, lines 125-131, at any time in the life of
\* the Server: before Serve, while it accepts, after it returned, after an
\* earlier Shutdown.
Shutdown_Close ==
    /\ Alive
    /\ spc \in {"idle", "returned", "failed"}
    /\ IF served # 0 /\ CloseFails
       THEN /\ spc' = "failed"
            /\ UNCHANGED <<listener, wg, visited, shRunning>>
       ELSE /\ listener' = IF served # 0 THEN "closed" ELSE listener
            /\ spc' = "len"
            /\ wg' = 0
            /\ visited' = {}
            /\ shRunning' = {c \in Conns : HandlerRunning(c)}
    /\ UNCHANGED <<hasTimeout, tpc, wpc, done, closed, addr, handles, sent, pending, fault>>
    /\ UNCHANGED <<echoVars, lineVars, ioVars, telnetVars, lifeVars>>

\* NewServer has returned: no listener, no registry, Serve not called.
InitConstructed ==
    /\ InitNoCodec
    /\ listener = "nil"
    /\ hasTimeout = FALSE
    /\ tpc = [c \in Conns |-> "none"]
    /\ wpc = [c \in Conns |-> "none"]
    /\ done = [c \in Conns |-> FALSE]
    /\ closed = [c \in Conns |-> FALSE]
    /\ addr = [c \in Conns |-> 0]
    /\ handles = [k \in {} |-> 0]
    /\ sent = [c \in Conns |-> <<>>]
    /\ spc = "idle"
    /\ wg = 0
    /\ visited = {}
    /\ pending = {}
    /\ shRunning = {}
    /\ fault = "none"
    /\ inb = [c \in Conns |-> <<>>]
    /\ rp = [c \in Conns |-> 0]
    /\ peerEnd = [c \in Conns |-> FALSE]
    /\ buffer = [c \in Conns |-> 0]
    /\ hn = [c \in Conns |-> 0]
    /\ herr = [c \in Conns |-> "none"]
    /\ serving = [i \in Serves |-> "none"]
    /\ served = 0

NextLifecycle ==
    \/ \E i \in Serves : Serve_Call(i)
    \/ \E i \in Serves : Serve_Return(i)
    \/ \E c \in Conns : Serve_Accept(c)
    \/ \E c \in Conns : Handle_Start(c)
    \/ \E c \in Conns : Handle_Negotiate(c)
    \/ \E c \in Conns : Handle_Cancel(c)
    \/ \E c \in Conns : Handle_Close(c)
    \/ \E c \in Conns : Handler_Return(c)
    \/ \E c \in Conns : WatchStep(c)
    \/ Shutdown_Close
    \/ ShutdownStep
    \/ \E c \in Conns : Canceller(c)

SpecLifecycle == InitConstructed /\ [][NextLifecycle]_vars

\* ---- the registry lock, server.handlesMu ----
\* The goroutine of c is between handlesMu.Lock() and handlesMu.Unlock().
HoldsHandlesMu(c) == wpc[c] \in {"put", "remove"}

\* server.handlesMu.Lock(), lines 159 and 170: waits while another holds it.
Watch_Lock(c) ==
    /\ Alive
    /\ wpc[c] \in {"register", "delete"}
    /\ \A d \in Conns : ~HoldsHandlesMu(d)
    /\ wpc' = [wpc EXCEPT ![c] = IF wpc[c] = "register" THEN "put" ELSE "remove"]
    /\ UNCHANGED <<listener, hasTimeout, tpc, done, closed, addr, handles, sent, spc, wg,
                   visited, pending, shRunning, fault>>
    /\ UNCHANGED <<echoVars, lineVars, ioVars, lifeVars, telnetVars>>

\* server.handles[...] = conn.cancel and Unlock(), lines 160-161.
Watch_Put(c) ==
    /\ Alive
    /\ wpc[c] = "put"
    /\ handles' = Put(handles, addr[c], c)
    /\ wpc' = [wpc EXCEPT ![c] = "wait"]
    /\ UNCHANGED <<listener, hasTimeout, tpc, done, closed, addr, sent, spc, wg,
                   visited, pending, shRunning, fault>>
    /\ UNCHANGED <<echoVars, lineVars, ioVars, lifeVars, telnetVars>>

\* delete(server.handles, ...) and Unlock(), lines 171-172.
Watch_Remove(c) ==
    /\ Alive
    /\ wpc[c] = "remove"
    /\ handles' = Delete(handles, addr[c])
    /\ wpc' = [wpc EXCEPT ![c] = "ended"]
    /\ UNCHANGED <<listener, hasTimeout, tpc, done, closed, addr, sent, spc, wg,
                   visited, pending, shRunning, fault>>
    /\ UNCHANGED <<echoVars, lineVars, ioVars, lifeVars, telnetVars>>

\* The Server with Shutdown called on it, the critical sections of the
\* goroutines of handle opened up: Lock is a step of its own.  Shutdown's
\* steps are the same, as it calls neither Lock nor Unlock.
NextLocking ==
    \/ \E c \in Conns : Accept(c)
    \/ \E c \in Conns : DeadlineExpires(c)
    \/ \E c \in Conns : HandleStep(c)
    \/ \E c \in Conns : Handler_Return(c)
    \/ \E c \in Conns : Handler_Panic(c)
    \/ \E c \in Conns : Watch_Lock(c)
    \/ \E c \in Conns : Watch_Put(c)
    \/ \E c \in Conns : Watch_Close(c)
    \/ \E c \in Conns : Watch_Remove(c)
    \/ Shutdown_Call
    \/ ShutdownStep
    \/ \E c \in Conns : Canceller(c)

SpecLocking == InitServer /\ [][NextLocking]_vars

(***************************************************************************)
(* server.go: EchoHandler, one invocation per connection                   *)
(***************************************************************************)
\* What a peer sends: its own data byte, an escaped 255, a negotiation.
EchoItems(c) == {<<64 + c>>, <<IAC, IAC>>, <<IAC, DO, ECHO>>}

EchoInputs(c) == {Concat(items) : items \in SeqsUpTo(EchoItems(c), MaxEcho)}

RECURSIVE ReadOne(_, _, _, _)
\* session.Read(p) with len(p) = 1 on the stream w, p bytes of it consumed,
\* the reader at 'at' (as rpc of reader.Read); 'ended' when the peer has
\* closed.  The call returns with the first byte it delivers or with the
\* first error; it blocks while the next byte has not been sent.
ReadOne(w, p, at, ended) ==
    IF p = Len(w)
    THEN IF ended THEN [ret |-> "error", n |-> 0, b |-> 0, pos |-> p, err |-> "EOF"]
         ELSE [ret |-> "block", n |-> 0, b |-> 0, pos |-> p, err |-> "nil"]
    ELSE LET b == w[p + 1]
         IN CASE at = "top" ->
                   IF b = IAC THEN ReadOne(w, p + 1, "peek", ended)
                   ELSE [ret |-> "data", n |-> 1, b |-> b, pos |-> p + 1, err |-> "nil"]
              [] at = "peek" ->
                   CASE PeekCase(b) = "negotiation" -> ReadOne(w, p + 1, "discard", ended)
                     [] PeekCase(b) = "escaped" ->
                          [ret |-> "data", n |-> 1, b |-> IAC, pos |-> p + 1, err |-> "nil"]
                     [] PeekCase(b) = "subnegotiation" -> ReadOne(w, p, "sb", ended)
                     [] PeekCase(b) = "orphan" -> ReadOne(w, p + 1, "top", ended)
                     [] OTHER -> [ret |-> "error", n |-> 0, b |-> 0, pos |-> p, err |-> "corrupted"]
              [] at = "discard" -> ReadOne(w, p + 1, "top", ended)
              [] at = "sb" -> ReadOne(w, p + 1, IF b = IAC THEN "sbpeek" ELSE "sb", ended)
              [] OTHER ->
                   IF SubnegDiscards(b)
                   THEN ReadOne(w, p + 1, IF SubnegEnds(b) THEN "top" ELSE "sb", ended)
                   ELSE ReadOne(w, p, "sb", ended)

\* Variant: the handlers share one buffer.
BufferOf_Shared(c) == 1

\* var buffer [1]byte, line 209: each invocation has its own.
BufferOf(c) == c

\* n, err := session.Read(p), line 213.
Echo_Read(c) ==
    /\ Alive
    /\ tpc[c] = "handler"
    /\ herr[c] = "none"
    /\ LET r == ReadOne(inb[c], rp[c], "top", peerEnd[c])
       IN /\ r.ret # "block"
          /\ rp' = [rp EXCEPT ![c] = r.pos]
          /\ hn' = [hn EXCEPT ![c] = r.n]
          /\ herr' = [herr EXCEPT ![c] = r.err]
          /\ buffer' = IF r.n > 0 THEN [buffer EXCEPT ![BufferOf(c)] = r.b] ELSE buffer
    /\ UNCHANGED <<inb, peerEnd>>
    /\ UNCHANGED <<serverVars, lineVars, ioVars, lifeVars, telnetVars>>

\* if n > 0 { session.Write(p[:n]) } and the test of err, lines 214-222.
Echo_Write(c) ==
    /\ Alive
    /\ tpc[c] = "handler"
    /\ herr[c] # "none"
    /\ LET r == SessionWrite(<<buffer[BufferOf(c)]>>, FALSE, MaxChunk)
       IN IF hn[c] > 0 /\ closed[c]
          THEN /\ tpc' = [tpc EXCEPT ![c] = "returned"]
               /\ UNCHANGED <<sent, herr>>
          ELSE /\ sent' = [sent EXCEPT ![c] = IF hn[c] > 0 THEN sent[c] \o r.w ELSE sent[c]]
               /\ IF herr[c] # "nil"
                  THEN tpc' = [tpc EXCEPT ![c] = "returned"] /\ UNCHANGED herr
                  ELSE herr' = [herr EXCEPT ![c] = "none"] /\ UNCHANGED tpc
    /\ UNCHANGED <<listener, hasTimeout, wpc, done, closed, addr, handles, spc, wg,
                   visited, pending, shRunning, fault>>
    /\ UNCHANGED <<inb, rp, peerEnd, buffer, hn>>
    /\ UNCHANGED <<lineVars, ioVars, lifeVars, telnetVars>>

\* The peer of an accepted connection closes its end.
PeerCloses(c) ==
    /\ Alive
    /\ tpc[c] # "none"
    /\ ~peerEnd[c]
    /\ peerEnd' = [peerEnd EXCEPT ![c] = TRUE]
    /\ UNCHANGED <<inb, rp, buffer, hn, herr>>
    /\ UNCHANGED <<serverVars, lineVars, ioVars, lifeVars, telnetVars>>

\* A Server without Timeout whose Handler is EchoHandler; every peer sends
\* a stream of its own.
InitEcho ==
    /\ InitNoCodec
    /\ InitListening
    /\ hasTimeout = FALSE
    /\ inb \in {f \in [Conns -> UNION {EchoInputs(c) : c \in Conns}] :
                   \A c \in Conns : f[c] \in EchoInputs(c)}

NextEcho ==
    \/ \E c \in Conns : Accept(c)
    \/ \E c \in Conns : Handle_Start(c)
    \/ \E c \in Conns : Handle_Negotiate(c)
    \/ \E c \in Conns : Echo_Read(c)
    \/ \E c \in Conns : Echo_Write(c)
    \/ \E c \in Conns : PeerCloses(c)
    \/ \E c \in Conns : Handle_Cancel(c)
    \/ \E c \in Conns : Handle_Close(c)
    \/ \E c \in Conns : WatchStep(c)

SpecEcho == InitEcho /\ [][NextEcho]_vars

(***************************************************************************)
(* io.go and writer.go as tasks: LongWrite and writer.Write call by call   *)
(* against an underlying io.Writer that takes short pieces, stalls or      *)
(* fails; two tasks may write to the same underlying writer.               *)
(***************************************************************************)
WriteBytes == {65, IAC}

\* What a task calls: LongWrite(w, p), writer.Write(data), or
\* WriteCommand(w, IAC, DO, NAWS).
Calls ==
    {[kind |-> "long", data |-> p] : p \in SeqsUpTo(WriteBytes, MaxWrite)}
    \cup {[kind |-> "data", data |-> d] : d \in SeqsUpTo(WriteBytes, MaxWrite)}
    \cup {[kind |-> "cmd", data |-> commandSignature \o <<IAC, DO, NAWS>>]}

\* The task is about to call with the argument c.data, which 'arg' keeps.
Ready(c) == [NoCall EXCEPT !.pc = "ready", !.kind = c.kind, !.arg = c.data, !.data = c.data]

\* w.Write(p) of the underlying writer: the (n, err) it may return.  An open
\* writer takes at least one byte and all or a part of p, a part with a nil
\* error or io.ErrShortWrite; a stalled one takes nothing and says
\* io.ErrShortWrite; a failing one takes a part and returns a hard error,
\* as a broken one does without taking anything.
SinkWrite(p) ==
    CASE sinkState = "open" ->
             {[n |-> k, err |-> IF k = Len(p) THEN "nil" ELSE e] :
                 k \in 1..Len(p), e \in {"nil", "short write"}}
      [] sinkState = "stalled" -> {[n |-> 0, err |-> "short write"]}
      [] sinkState = "failing" -> {[n |-> k, err |-> "broken pipe"] : k \in 0..(Len(p) - 1)}
      [] OTHER -> {[n |-> 0, err |-> "broken pipe"]}

\* Variant: only a nil error lets the loop go on.
Tolerated_NilOnly(err) == err = "nil"

\* io.go line 15: err == nil || errors.Is(err, io.ErrShortWrite).
Tolerated(err) == err = "nil" \/ err = "short write"

\* return n, err of the task's call.
Return(r, n, err) == [r EXCEPT !.pc = "returned", !.n = n, !.err = err]

\* LongWrite(w.writer, p) is entered; 'after' is the statement that called.
StartLong(r, p, after) == [r EXCEPT !.pc = "lw", !.p = p, !.numWritten = 0, !.after = after]

\* Variant: the escape is counted whatever LongWrite reports.
EscapeCounted_Always(r, err) == TRUE

\* writer.go lines 83-89: the escape counts when LongWrite wrote both bytes.
EscapeCounted(r, err) == err = "nil" /\ r.numWritten = Len(EscapeIAC)

\* LongWrite has returned (r.numWritten, err): the caller's next statements.
Resume(r, err) ==
    CASE r.after \in {"long", "command"} -> Return(r, r.numWritten, err)
      [] r.after = "flush" ->
             IF err # "nil"
             THEN Return(r, r.n + r.numWritten, err)
             ELSE StartLong([r EXCEPT !.n = @ + r.numWritten, !.buffer = <<>>],
                            EscapeIAC, "escape")
      [] r.after = "escape" ->
             IF EscapeCounted(r, err)
             THEN [r EXCEPT !.pc = "loop", !.n = @ + 1, !.data = Tail(@)]
             ELSE Return(r, r.n, IF err # "nil" THEN err ELSE "partial IAC IAC write")
      [] OTHER -> Return(r, r.n + r.numWritten, err)

\* The length of the run of bytes other than IAC that d begins with.
PlainRun(d) ==
    IF \E i \in 1..Len(d) : d[i] = IAC
    THEN (CHOOSE i \in 1..Len(d) : d[i] = IAC /\ \A j \in 1..(i - 1) : d[j] # IAC) - 1
    ELSE Len(d)

\* The call is entered: LongWrite itself, or writer.Write with its test for
\* the command signature, lines 59-63.
W_Call(t) ==
    /\ wt[t].pc = "ready"
    /\ LET r == wt[t]
       IN wt' = [wt EXCEPT ![t] =
                    IF r.kind = "long" THEN StartLong(r, r.data, "long")
                    ELSE IF IsCommandWrite(r.data)
                    THEN StartLong(r, Drop(r.data, 4), "command")
                    ELSE [r EXCEPT !.pc = "loop"]]
    /\ UNCHANGED <<sink, sinkState>>
    /\ UNCHANGED <<telnetVars, lineVars, serverVars, echoVars, lifeVars>>

\* The range loop of writer.Write up to its next LongWrite or its return,
\* lines 65-73, 82, 94-96, 103.
W_Loop(t) ==
    /\ wt[t].pc = "loop"
    /\ LET r == wt[t]
           k == PlainRun(r.data)
           buf == r.buffer \o Take(r.data, k)
           q == [r EXCEPT !.buffer = buf, !.data = Drop(r.data, k)]
       IN wt' = [wt EXCEPT ![t] =
                    IF Len(q.data) = 0
                    THEN IF Len(buf) > 0 THEN StartLong(q, buf, "final")
                         ELSE Return(q, q.n, "nil")
                    ELSE IF Len(buf) > 0 THEN StartLong(q, buf, "flush")
                         ELSE StartLong(q, EscapeIAC, "escape")]
    /\ UNCHANGED <<sink, sinkState>>
    /\ UNCHANGED <<telnetVars, lineVars, serverVars, echoVars, lifeVars>>

\* One turn of the loop of LongWrite, lines 12-21: the test of len(p), one
\* Write of the underlying writer, the test of its error.
W_LongWrite(t) ==
    /\ wt[t].pc = "lw"
    /\ LET r == wt[t]
       IN IF Len(r.p) = 0
          THEN /\ wt' = [wt EXCEPT ![t] = Resume(r, "nil")]
               /\ UNCHANGED <<sink, sinkState>>
          ELSE \E o \in SinkWrite(r.p) :
                  LET r2 == [r EXCEPT !.numWritten = @ + o.n]
                  IN /\ sink' = sink \o [i \in 1..o.n |-> <<r.p[i], t>>]
                     /\ sinkState' = IF sinkState = "failing" THEN "broken" ELSE sinkState
                     /\ wt' = [wt EXCEPT ![t] =
                                  IF Tolerated(o.err)
                                  THEN [r2 EXCEPT !.p = Drop(@, o.n)]
                                  ELSE Resume(r2, o.err)]
    /\ UNCHANGED <<telnetVars, lineVars, serverVars, echoVars, lifeVars>>

\* The underlying writer stops taking bytes: its peer no longer reads.
Sink_Stall ==
    /\ sinkState = "open"
    /\ sinkState' = "stalled"
    /\ UNCHANGED <<wt, sink>>
    /\ UNCHANGED <<telnetVars, lineVars, serverVars, echoVars, lifeVars>>

\* The underlying writer breaks: its next Write fails part-way.
Sink_Break ==
    /\ sinkState = "open"
    /\ sinkState' = "failing"
    /\ UNCHANGED <<wt, sink>>
    /\ UNCHANGED <<telnetVars, lineVars, serverVars, echoVars, lifeVars>>

\* One task calls LongWrite, writer.Write or WriteCommand; a second task may
\* call WriteCommand on the same writer at the same time.
InitWriters ==
    /\ input = [kind |-> "raw", bytes |-> <<>>]
    /\ chunk = MaxChunk
    /\ outw = <<>>
    /\ wres = [n |-> 0, err |-> "none"]
    /\ wire = <<>>
    /\ InitRead
    /\ InitSession
    /\ InitLine
    /\ InitNoServer
    /\ \E c \in Calls, d \in {NoCall, Ready([kind |-> "cmd", data |-> commandSignature \o <<IAC, DO, NAWS>>])} :
          wt = [t \in Writers |-> IF t = 1 THEN Ready(c) ELSE d]
    /\ sink = <<>>
    /\ sinkState = "open"

W_Step(t) ==
    \/ W_Call(t)
    \/ W_Loop(t)
    \/ W_LongWrite(t)

NextWriters ==
    \/ \E t \in Writers : W_Step(t)
    \/ Sink_Stall
    \/ Sink_Break

SpecWriters == InitWriters /\ [][NextWriters]_vars

\* The scheduler runs every task that can take a step.
FairSpecWriters == SpecWriters /\ \A t \in Writers : WF_vars(W_Step(t))

(***************************************************************************)
(* Reference notions the properties are stated with (spec.md 4.1, 4.2).    *)
(***************************************************************************)
RECURSIVE Doubled(_)
\* d with every byte 255 doubled.
Doubled(d) ==
    IF Len(d) = 0 THEN <<>>
    ELSE (IF Head(d) = 255 THEN <<255, 255>> ELSE <<Head(d)>>) \o Doubled(Tail(d))

NegotiationVerbs == {251, 252, 253, 254}

Recognised == NegotiationVerbs \cup {240, 250, 255}

IsPlain(w) == \A i \in 1..Len(w) : w[i] # 255

RECURSIVE IsNegStream(_)
\* w is plain bytes interleaved with whole IAC verb option triplets.
IsNegStream(w) ==
    IF Len(w) = 0 THEN TRUE
    ELSE IF w[1] # 255 THEN IsNegStream(Tail(w))
    ELSE Len(w) >= 3 /\ w[2] \in NegotiationVerbs /\ IsNegStream(Drop(w, 3))

RECURSIVE PlainOf(_)
\* The plain bytes of a negotiation stream, triplets removed.
PlainOf(w) ==
    IF Len(w) = 0 THEN <<>>
    ELSE IF w[1] # 255 THEN <<w[1]>> \o PlainOf(Tail(w))
    ELSE PlainOf(Drop(w, 3))

RECURSIVE SubnegRest(_)
\* What follows the IAC SE that terminates the payload w starts in; <<>> when
\* unterminated.  IAC IAC is a doubled literal, IAC x is payload.
SubnegRest(w) ==
    IF Len(w) < 2 THEN <<>>
    ELSE IF w[1] # 255 THEN SubnegRest(Tail(w))
    ELSE IF w[2] = 240 THEN Drop(w, 2)
    ELSE IF w[2] = 255 THEN SubnegRest(Drop(w, 2))
    ELSE SubnegRest(Tail(w))

RECURSIVE RefDecode(_)
\* The application data of a wire stream by the rules of spec.md 4.2;
\* decoding stops at a corrupted or incomplete sequence.
RefDecode(w) ==
    IF Len(w) = 0 THEN <<>>
    ELSE IF w[1] # 255 THEN <<w[1]>> \o RefDecode(Tail(w))
    ELSE IF Len(w) < 2 THEN <<>>
    ELSE IF w[2] = 255 THEN <<255>> \o RefDecode(Drop(w, 2))
    ELSE IF w[2] \in NegotiationVerbs THEN (IF Len(w) < 3 THEN <<>> ELSE RefDecode(Drop(w, 3)))
    ELSE IF w[2] = 250 THEN RefDecode(SubnegRest(Drop(w, 2)))
    ELSE IF w[2] = 240 THEN RefDecode(Drop(w, 2))
    ELSE <<>>

\* The stream has ended and a Read has reported it.
StreamEnded == rpc = "idle" /\ lastErr = "EOF"

(***************************************************************************)
(* Properties of the codec, checked under Spec.                            *)
(***************************************************************************)

\* C1: round trip - the wire bytes of one writer.Write(B), read until the
\* stream ends, deliver exactly B, for every B.
C1_RoundTrip ==
    (input.kind = "data" /\ StreamEnded) => delivered = input.bytes

\* C2: writer.Write(D) puts D with every 255 doubled on the wire and returns
\* (len(D), nil), for every D.
C2_WriteDoublesIAC ==
    (input.kind = "data" /\ wres.err # "none") =>
        /\ outw = Doubled(input.bytes)
        /\ wres = [n |-> Len(input.bytes), err |-> "nil"]

\* C3: WriteCommand(w, c, o, a) puts exactly the three bytes c, o, a on the
\* wire, unescaped, and returns (3, nil), for every triple incl. 255.
C3_CommandIsRaw ==
    (input.kind = "cmd" /\ wres.err # "none") =>
        /\ outw = input.bytes
        /\ wres = [n |-> 3, err |-> "nil"]

C3_Witness ==
    /\ input.kind = "cmd"
    /\ input.bytes = <<IAC, IAC, IAC>>
    /\ chunk = 1
    /\ wres.err = "nil"
    /\ Len(outw) = 3

\* C4: on a stream of plain bytes interleaved with IAC verb option triplets
\* the Reads deliver exactly the plain bytes in order; whenever the reader is
\* between sequences it has consumed whole triplets only (3 wire bytes each,
\* no application byte), and it reports no error but the end of the stream.
C4_NegotiationStripped ==
    (input.kind = "raw" /\ IsNegStream(wire)) =>
        /\ rpc \in {"idle", "top"} =>
              /\ IsNegStream(Take(wire, pos))
              /\ delivered = PlainOf(Take(wire, pos))
        /\ lastErr \in {"none", "nil", "EOF"}
        /\ StreamEnded => pos = Len(wire) /\ delivered = PlainOf(wire)

C4_Witness ==
    /\ input.kind = "raw"
    /\ wire = <<65, IAC, DO, IAC, 65>>
    /\ StreamEnded
    /\ delivered = <<65, 65>>

\* Where subnegotiation s sits in the wire between plain bytes: the number of
\* plain bytes before it, or -1.
SubnegAt(s) ==
    LET ks == {k \in 0..(Len(wire) - Len(s)) :
                  /\ SubSeq(wire, k + 1, k + Len(s)) = s
                  /\ IsPlain(Take(wire, k))
                  /\ IsPlain(Drop(wire, k + Len(s)))}
    IN IF ks = {} THEN -1 ELSE CHOOSE k \in ks : TRUE

\* C5: a subnegotiation IAC SB .. IAC SE whose payload holds IAC IAC (or IAC
\* and another byte) delivers nothing from IAC SB through the terminating
\* IAC SE, the reader never resumes inside the span, and the bytes after the
\* terminator are delivered unchanged.
C5_SubnegotiationStripped ==
    \A s \in Subnegs :
        LET k == SubnegAt(s)
        IN (input.kind = "raw" /\ k >= 0) =>
               /\ rpc \in {"idle", "top"} =>
                     /\ pos <= k \/ pos >= k + Len(s)
                     /\ delivered = Take(wire, Min(pos, k)) \o SubSeq(wire, k + Len(s) + 1, pos)
               /\ lastErr \in {"none", "nil", "EOF"}
               /\ StreamEnded => delivered = Take(wire, k) \o Drop(wire, k + Len(s))

C5_Witness ==
    /\ input.kind = "raw"
    /\ wire = <<65, IAC, SB, ECHO, IAC, IAC, SE, IAC, SE, 65>>
    /\ StreamEnded
    /\ delivered = <<65, 65>>

\* C6: when the reader has read an IAC and the next wire byte is none of IAC,
\* WILL, WONT, DO, DONT, SB, SE, that Read returns the corruption error at
\* once; the bytes it returns were all decoded from the wire before the pair.
C6_CorruptionStep ==
    (rpc = "peek" /\ pos < Len(wire) /\ wire[pos + 1] \notin Recognised) =>
     \/ UNCHANGED <<readVars, pos>>
     \/ /\ rpc' = "idle"
        /\ lastErr' = "corrupted"
        /\ pos' = pos
        /\ delivered' = delivered
        /\ lastN' = rn
        /\ SubSeq(delivered, Len(delivered) - rn + 1, Len(delivered))
              = RefDecode(SubSeq(wire, callPos + 1, pos - 1))

C6_CorruptionReturnsError == [][C6_CorruptionStep]_vars

C6_Witness ==
    /\ wire = <<65, IAC, ECHO, 65>>
    /\ rpc = "idle"
    /\ lastErr = "corrupted"
    /\ lastN = 1
    /\ delivered = <<65>>
    /\ filled = 4

\* C7: once a Read has returned the corruption error no later Read delivers
\* an application byte.
C7_CorruptionIsTerminal ==
    corruptAt >= 0 => Len(delivered) = corruptAt

(***************************************************************************)
(* Properties of RequestWindowSize, checked under SpecNaws.                *)
(***************************************************************************)

\* The input pending when RequestWindowSize was called begins with r.
RepliedWith(r) ==
    /\ rwsPos >= 0
    /\ Len(wire) >= rwsPos + Len(r)
    /\ SubSeq(wire, rwsPos + 1, rwsPos + Len(r)) = r

\* C8 as stated: the reply IAC WILL NAWS, IAC SB NAWS w_hi w_lo h_hi h_lo
\* IAC SE makes RequestWindowSize return nil with the window size
\* (256*w_hi + w_lo, 256*h_hi + h_lo).
C8_NawsSuccess ==
    \A p \in NawsPayloads :
        (npc = "done" /\ RepliedWith(NawsReply(p))) =>
            /\ rwsRet = "nil"
            /\ GetWindowSize = <<256 * p[1] + p[2], 256 * p[3] + p[4]>>

\* C8 amended: with that reply RequestWindowSize returns nil; it has stored
\* (256*w_hi + w_lo, 256*h_hi + h_lo) unless it left through the timeout
\* branch, which it takes only when the timer has fired and which leaves the
\* size (0, 0).
C8_NawsSuccessUnlessTimeout ==
    \A p \in NawsPayloads :
        (npc = "done" /\ RepliedWith(NawsReply(p))) =>
            /\ rwsRet = "nil"
            /\ IF rwsVia = "timeout"
               THEN timedOut /\ GetWindowSize = <<0, 0>>
               ELSE /\ rwsVia = "naws"
                    /\ GetWindowSize = <<256 * p[1] + p[2], 256 * p[3] + p[4]>>

C8_Witness ==
    /\ npc = "done"
    /\ wire = NawsReply(<<IAC, 0, 0, IAC>>)
    /\ rwsVia = "naws"
    /\ GetWindowSize = <<65280, 255>>

\* C9: the reply IAC WONT NAWS makes RequestWindowSize return nil with the
\* window size still (0, 0) and HasWindowSize false.
C9_NawsRefusal ==
    (npc = "done" /\ RepliedWith(<<255, 252, 31>>)) =>
        /\ rwsRet = "nil"
        /\ GetWindowSize = <<0, 0>>
        /\ ~HasWindowSize

C9_Witness ==
    /\ npc = "done"
    /\ rwsVia = "refused"
    /\ wire = <<IAC, WONT, NAWS>> \o <<IAC, SB, NAWS, 0, 80, 0, 24, IAC, SE>>
    /\ rpc = "idle"
    /\ lastErr = "EOF"

\* C10: when nothing is pending at the call, the peer sends nothing and keeps
\* the connection open, RequestWindowSize returns nil with the size (0, 0):
\* it does not stay inside the call once the timer has fired.
C10_TimeoutReturns ==
    (npc \notin {"idle", "done"} /\ rwsPos = Len(wire)) ~>
        (eof \/ (npc = "done" /\ rwsRet = "nil" /\ GetWindowSize = <<0, 0>>))

(***************************************************************************)
(* End of stream inside RequestWindowSize, checked under SpecNawsCut.      *)
(***************************************************************************)

\* RequestWindowSize has returned because a read of the buffer met the end
\* of the stream: at the Peek, at the byte after IAC, at the option byte, at
\* the NAWS payload or its terminator, or in the skip loop.
ReturnedAtEndOfStream ==
    /\ npc = "done"
    /\ eof
    /\ \/ rwsVia \in {"eof", "cmd", "opt", "sbopt", "payload", "skip"}
       \/ rwsVia = "terminator" /\ rwsRet = "failed to read NAWS SB terminator"

\* C11: when the stream ends while RequestWindowSize is waiting - before any
\* reply byte, after a lone IAC, after IAC and a verb, or inside a
\* subnegotiation - RequestWindowSize returns nil and the window size stays
\* absent.
C11_NawsEndOfStream ==
    ReturnedAtEndOfStream => (rwsRet = "nil" /\ ~HasWindowSize)

(***************************************************************************)
(* Claims about the Server.                                                *)
(***************************************************************************)

\* The connection's task, server.handle, has started and has not returned.
TaskRunning(c) == tpc[c] \in {"negotiate", "unsent", "handler", "returned", "panicked", "recover", "close"}

\* The registry holds an entry that leads to connection c.
HasEntry(c) == \E k \in DOMAIN handles : handles[k] = c

\* C12: the registry holds an entry for a connection if and only if the task
\* of that connection is running: never missing while the handler runs,
\* never present after the task has ended.
C12_RegistryIffRunning == \A c \in Conns : HasEntry(c) <=> TaskRunning(c)

\* C13: when Shutdown has returned, the cancel operation of every connection
\* whose handler was running when Shutdown was called has been invoked, so
\* the lifecycle token of each of them is done.
C13_ShutdownCancelsRunning == spc = "returned" => \A c \in shRunning : done[c]

\* C14: Shutdown terminates and never faults: whatever registers or
\* deregisters while it executes, no step of it faults, and once it has
\* closed the listener it returns, without waiting for handlers or transports.
C14_ShutdownTerminates == [](fault = "none") /\ (spc = "len" ~> spc = "returned")

\* The bytes of the initial negotiation.
Negotiation == <<IAC, WONT, SGA>>

\* The handler of c is invoked by this step.
Invoked(c) == tpc[c] # "handler" /\ tpc'[c] = "handler"

C15_Step(c) ==
    /\ Invoked(c) => tpc[c] = "negotiate" /\ sent'[c] = Negotiation
    /\ tpc[c] \in {"none", "start", "negotiate"} => sent[c] = <<>> /\ sent'[c] \in Prefixes(Negotiation)
    /\ tpc[c] \in {"unsent", "close", "ended"} => tpc'[c] # "handler"
    /\ tpc'[c] = "unsent" => sent'[c] # Negotiation

\* C15: the first bytes written on an accepted connection are IAC WONT SGA,
\* written before the handler is invoked; when that write fails the handler is
\* never invoked and the connection is torn down: token cancelled, transport
\* closed.
C15_NegotiationFirst ==
    /\ [][\A c \in Conns : C15_Step(c)]_vars
    /\ \A c \in Conns : tpc[c] = "unsent" ~> (done[c] /\ closed[c] /\ tpc[c] = "ended")

\* The negotiation broke part-way, the handler was not invoked and the
\* connection is torn down.
C15_Witness == \E c \in Conns : tpc[c] = "ended" /\ sent[c] = <<IAC>> /\ done[c] /\ closed[c]

\* The handler of c has returned, normally or by a panic.
HandlerReturned(c) == tpc[c] \in {"returned", "panicked"}

\* Every connection of the run has been accepted and no handler is still to
\* run or running.
AllHandlersReturned == \A c \in Conns : tpc[c] \in {"unsent", "returned", "panicked", "recover", "close", "ended"}

\* C16: after the handler of a connection has returned, normally or by a
\* panic, the token is eventually cancelled, the transport closed and the
\* registry entry removed, for good; once all handlers have returned the
\* registry eventually is and stays empty.
C16_TeardownAfterReturn ==
    /\ \A c \in Conns : HandlerReturned(c) ~> [](done[c] /\ closed[c] /\ ~HasEntry(c))
    /\ AllHandlersReturned ~> [](handles = <<>>)

\* A handler that was invoked has returned, its task and its watcher have
\* ended, and the registry is empty.
C16_Witness ==
    \E c \in Conns : /\ tpc[c] = "ended" /\ wpc[c] = "ended" /\ sent[c] = Negotiation
                     /\ done[c] /\ closed[c] /\ handles = <<>>

\* The goroutine of lines 158-173 has called conn.Conn.Close().
WatcherClosed(c) == closed[c] /\ wpc[c] \in {"delete", "ended"}

\* The token of c becomes done in this step.
BecomesDone(c) == ~done[c] /\ done'[c]

\* C17: once the lifecycle token of a connection is done - by its registered
\* cancel operation, by the deadline of a Timeout > 0, or otherwise - the
\* watcher eventually closes the transport, whether or not the handler
\* returns; without a Timeout the token becomes done only by a call of its
\* cancel operation: the registered one, or the one deferred by handle.
C17_WatcherCloses ==
    /\ \A c \in Conns : done[c] ~> WatcherClosed(c)
    /\ [][\A c \in Conns : (~hasTimeout /\ BecomesDone(c)) => (Registry_Cancel(c) \/ Handle_Cancel(c))]_vars

\* A token without deadline was cancelled and the watcher has closed the
\* transport while the handler is still running.
C17_Witness == \E c \in Conns : ~hasTimeout /\ tpc[c] = "handler" /\ done[c] /\ WatcherClosed(c)

\* The handler of c has panicked and the panic has not been recovered yet.
Panicking(c) == tpc[c] \in {"panicked", "recover"}

\* What the panic sets off: the deferred calls of handle, and the watcher's
\* close and removal once the token is cancelled.
Teardown(c) ==
    \/ Handle_Cancel(c)
    \/ Handle_Recover(c)
    \/ Handle_Close(c)
    \/ Watch_Close(c)
    \/ Watch_Delete(c)

\* The step leaves connection d as it is: not cancelled, not closed, its
\* registry entry not removed.
Untouched(d) ==
    /\ done'[d] = done[d]
    /\ closed'[d] = closed[d]
    /\ HasEntry(d) => HasEntry(d)'

\* C18: a panic of one connection's handler is recovered inside the task of
\* that connection: no step faults, and what the panic sets off leaves the
\* listener open and every other connection uncancelled, unclosed and
\* registered.
C18_FaultIsolation ==
    /\ [](fault = "none")
    /\ [][\A c \in Conns :
             (Panicking(c) /\ Teardown(c))
                 => (listener' = listener /\ \A d \in Conns \ {c} : Untouched(d))]_vars

\* The handler of c was invoked: the negotiation went out whole.
HandlerInvoked(c) == Len(sent[c]) >= Len(Negotiation) /\ tpc[c] \notin {"negotiate", "unsent"}

\* What the handler of c has written to its connection.
Echoed(c) == Drop(sent[c], Len(Negotiation))

\* The EchoHandler of c has ended at the end of its peer's stream.
EchoEnded(c) == HandlerInvoked(c) /\ tpc[c] # "handler" /\ herr[c] = "EOF"

\* C19: with several connections served by EchoHandler at once, what is
\* written back on a connection is the application data of that connection's
\* own inbound stream, in order - a prefix of it while the handler runs, all
\* of it once the handler has reached the end of the stream - under every
\* interleaving; no byte of another connection appears.
C19_EchoIsolation ==
    \A c \in Conns :
        HandlerInvoked(c) =>
            /\ Echoed(c) \in Prefixes(Doubled(RefDecode(inb[c])))
            /\ EchoEnded(c) => Echoed(c) = Doubled(RefDecode(inb[c]))

\* Two handlers have run interleaved, each has echoed its own two bytes, and
\* both have ended.
C19_Witness ==
    /\ \A c \in Conns : EchoEnded(c) /\ inb[c] = <<64 + c, IAC, IAC>>
    /\ sent[1] = Negotiation \o <<65, IAC, IAC>>
    /\ sent[2] = Negotiation \o <<66, IAC, IAC>>

(***************************************************************************)
(* Properties of ReadLine, checked under SpecReadLine.                     *)
(***************************************************************************)
\* The number of line feeds in d.
LineFeeds(d) == Cardinality({i \in 1..Len(d) : d[i] = 10})

\* The index of the first line feed of d, which has one.
FirstLineFeed(d) == CHOOSE i \in 1..Len(d) : d[i] = 10 /\ \A j \in 1..(i - 1) : d[j] # 10

RECURSIVE LinesOf(_)
\* d cut after each line feed; what follows the last one is not a line.
LinesOf(d) ==
    IF LineFeeds(d) = 0 THEN <<>>
    ELSE <<Take(d, FirstLineFeed(d))>> \o LinesOf(Drop(d, FirstLineFeed(d)))

\* A line as the caller is to get it: without its CR LF, or with its bare LF.
AsReturned(l) ==
    IF Len(l) >= 2 /\ l[Len(l) - 1] = 13 THEN Take(l, Len(l) - 2) ELSE l

\* The number of bytes of w up to the line feed that ends its k-th line.
EndOfLine(w, k) ==
    CHOOSE i \in 0..Len(w) :
        /\ LineFeeds(RefDecode(Take(w, i))) = k
        /\ \A j \in 0..(i - 1) : LineFeeds(RefDecode(Take(w, j))) < k

\* C20: the successive ReadLine calls return the successive lines of the
\* stream's application data - each up to its LF, a final CR LF removed, a
\* bare LF kept - and each call leaves the bytes after its LF unread; no line
\* is skipped before the end of the stream is reported.
C20_ReadLineLines ==
    LET ref == LinesOf(RefDecode(wire))
    IN /\ Len(lineRet) <= Len(ref)
       /\ \A k \in 1..Len(lineRet) :
             /\ lineRet[k] = AsReturned(ref[k])
             /\ lineEnds[k] = EndOfLine(wire, k)
       /\ lineErr = "EOF" => Len(lineRet) = Len(ref)

\* Two calls have returned: the line "A" of A CR LF, then the bare LF.
C20_Witness == wire = <<65, CR, NL, NL>> /\ lineRet = <<<<65>>, <<NL>>>> /\ lineEnds = <<3, 4>>

\* C21: a ReadLine whose Read fails - at the end of the stream or otherwise -
\* before a LF has been read returns the empty string with that error, never
\* the text read so far; a stream that ends before a LF yields no line.
C21_ReadLineError ==
    /\ lineErr # "none" => (lineStr = <<>> /\ lineErr = lastErr /\ lineErr # "nil")
    /\ LineFeeds(RefDecode(wire)) = 0 => lineRet = <<>>

\* The stream A A ended without a LF: the call has read both letters and
\* returned "" with the end of the stream.
C21_Witness == wire = <<65, 65>> /\ delivered = <<65, 65>> /\ lineErr = "EOF" /\ lineStr = <<>> /\ lpc = "idle"

(***************************************************************************)
(* Properties of Session.Write and Session.WriteCommand, checked under     *)
(* SpecSessionWrite.                                                       *)
(***************************************************************************)
\* The call of this run has returned.
Written == wres.err # "none"

\* C22: Session.WriteCommand(c, o, a) puts exactly the bytes c, o, a on the
\* wire, in either mode and for every value of the three bytes, LF and CR
\* included.
C22_SessionCommandRaw == (input.kind = "cmd" /\ Written) => outw = input.bytes

\* s contains the three bytes CR CR LF in a row.
HasCRCRLF(s) == \E i \in 1..(Len(s) - 2) : s[i] = 13 /\ s[i + 1] = 13 /\ s[i + 2] = 10

RECURSIVE LoneLFExpanded(_, _)
\* d with CR put before every LF that does not follow a CR; 'prev' is the
\* byte before d.
LoneLFExpanded(d, prev) ==
    IF Len(d) = 0 THEN <<>>
    ELSE (IF Head(d) = 10 /\ prev # 13 THEN <<13, 10>> ELSE <<Head(d)>>)
             \o LoneLFExpanded(Tail(d), Head(d))

\* C23: in line-discipline mode the wire of Session.Write never holds
\* CR CR LF, and for data without a doubled CR it is the data with every lone
\* LF turned into CR LF, CR LF pairs as they are, every 255 doubled and
\* nothing else changed.
C23_LineDiscipline ==
    (input.kind = "data" /\ isPTY /\ Written) =>
        /\ ~HasCRCRLF(outw)
        /\ ~HasCRCRLF(input.bytes) => outw = Doubled(LoneLFExpanded(input.bytes, 0))

\* C24: a Session.Write in line-discipline mode that returns without error
\* returns the length of the data it was given, for every data.
C24_WriteCountIsInputLength ==
    (input.kind = "data" /\ isPTY /\ Written /\ wres.err = "nil") => wres.n = Len(input.bytes)

(***************************************************************************)
(* Further properties of the reader, checked under Spec.                   *)
(***************************************************************************)
\* A Read has returned and no other has been entered.
ReadReturned == rpc = "idle" /\ lastErr # "none"

\* C25: a Read given a non-empty buffer never returns (0, nil): it returns
\* with at least one application byte or with an error, also when all that
\* has arrived is negotiation and subnegotiation.
C25_NeverZeroNil == ReadReturned => (lastN > 0 \/ lastErr # "nil")

\* A Read has consumed a whole negotiation and a whole subnegotiation,
\* nothing else has arrived, and it has not returned.
C25_Witness ==
    /\ wire = <<IAC, WILL, ECHO, IAC, SB, ECHO, IAC, SE>>
    /\ pos = Len(wire) /\ ~eof /\ rpc = "top" /\ rn = 0 /\ delivered = <<>>

RECURSIVE SubnegClosed(_)
\* The payload w starts in is terminated by an IAC SE.
SubnegClosed(w) ==
    IF Len(w) < 2 THEN FALSE
    ELSE IF w[1] # 255 THEN SubnegClosed(Tail(w))
    ELSE IF w[2] = 240 THEN TRUE
    ELSE IF w[2] = 255 THEN SubnegClosed(Drop(w, 2))
    ELSE SubnegClosed(Tail(w))

RECURSIVE WellFormed(_)
\* w is made of whole sequences only: plain bytes, IAC IAC, IAC verb option,
\* IAC SB .. IAC SE, and IAC SE with no open subnegotiation.
WellFormed(w) ==
    IF Len(w) = 0 THEN TRUE
    ELSE IF w[1] # 255 THEN WellFormed(Tail(w))
    ELSE IF Len(w) < 2 THEN FALSE
    ELSE IF w[2] = 255 \/ w[2] = 240 THEN WellFormed(Drop(w, 2))
    ELSE IF w[2] \in NegotiationVerbs THEN Len(w) >= 3 /\ WellFormed(Drop(w, 3))
    ELSE IF w[2] = 250 THEN SubnegClosed(Drop(w, 2)) /\ WellFormed(SubnegRest(Drop(w, 2)))
    ELSE FALSE

\* C26: decoding does not depend on chunking - for every well-formed stream,
\* however it arrives and whatever the Read buffer sizes, the bytes delivered
\* so far are the reference decoding of the wire bytes consumed so far
\* whenever the reader is between sequences, no Read reports an error but the
\* end of the stream, and at the end the Reads together have delivered the
\* reference decoding of the whole stream.
C26_ChunkingIndependent ==
    (input.kind = "raw" /\ WellFormed(wire)) =>
        /\ rpc \in {"idle", "top"} => delivered = RefDecode(Take(wire, pos))
        /\ lastErr \in {"none", "nil", "EOF"}
        /\ StreamEnded => delivered = RefDecode(wire)

C26_Witness ==
    /\ input.kind = "raw"
    /\ wire = <<IAC, DO, IAC>> \o <<IAC, SB, ECHO, IAC, IAC, SE, IAC, SE>> \o <<IAC, IAC>>
    /\ StreamEnded
    /\ delivered = <<IAC>>
    /\ pos = Len(wire)

(***************************************************************************)
(* What RequestWindowSize consumes while it waits, checked under SpecNaws.  *)
(***************************************************************************)

\* RequestWindowSize is between two sequences of the reply, or has returned
\* and no Read is inside a sequence.
BetweenSequences ==
    \/ npc \in {"select", "peek"}
    \/ npc = "done" /\ rwsVia # "send" /\ rpc \in {"idle", "top"}

\* C27: on a reply of plain bytes and IAC verb option triplets, whenever
\* RequestWindowSize (or a later Read) is between sequences, whole triplets
\* only have been consumed, 3 wire bytes each, and the application bytes
\* delivered are the plain bytes consumed: no option byte among them.
C27_NegotiationConsumedWhole ==
    (IsNegStream(wire) /\ BetweenSequences) =>
        /\ IsNegStream(Take(wire, pos))
        /\ delivered = PlainOf(Take(wire, pos))

\* RequestWindowSize has returned and no Read has been called since.
JustReturned == npc = "done" /\ rpc = "idle" /\ lastErr = "none"

\* C28: no application data is lost to the wait - on a well-formed reply,
\* what RequestWindowSize has consumed when it returns holds no application
\* byte, and once the Reads made after it have reached the end of the stream
\* they have delivered the reference decoding of the whole wire.
C28_NoDataLostToWait ==
    WellFormed(wire) =>
        /\ JustReturned => RefDecode(Take(wire, pos)) = <<>>
        /\ (npc = "done" /\ StreamEnded) => delivered = RefDecode(wire)

(***************************************************************************)
(* Unrelated subnegotiations during the wait, checked under SpecNawsSkip.   *)
(***************************************************************************)

RECURSIVE OtherSubsLen(_)
\* The length of the run of whole subnegotiations for options other than
\* NAWS that w begins with.
OtherSubsLen(w) ==
    IF Len(w) >= 3 /\ w[1] = 255 /\ w[2] = 250 /\ w[3] # 31 /\ SubnegClosed(Drop(w, 2))
    THEN LET rest == SubnegRest(Drop(w, 2))
         IN (Len(w) - Len(rest)) + OtherSubsLen(rest)
    ELSE 0

\* The NAWS reply that follows the unrelated subnegotiations carries payload p.
FollowedBy(p) ==
    LET k == OtherSubsLen(wire)
    IN /\ k > 0
       /\ Len(wire) >= k + 12
       /\ SubSeq(wire, k + 1, k + 12) = NawsReply(p)

\* The unrelated subnegotiations are skipped whole: between sequences
\* RequestWindowSize has consumed whole sequences only, it never returns from
\* inside the skip loop, and no Read delivers a byte of theirs.
SkippedInFull ==
    /\ npc \in {"select", "peek"} => WellFormed(Take(wire, pos))
    /\ rwsVia # "skip"
    /\ (rpc \in {"idle", "top"} /\ pos <= OtherSubsLen(wire)) => delivered = <<>>

\* C29 as stated: unrelated subnegotiations met during the wait are skipped
\* whole, IAC IAC in the payload included, none of their bytes is delivered,
\* and the IAC WILL NAWS and NAWS subnegotiation that follow are decoded into
\* the window size.
C29_SkipThenDecoded ==
    /\ SkippedInFull
    /\ \A p \in NawsPayloads :
           (npc = "done" /\ FollowedBy(p)) =>
               /\ rwsRet = "nil"
               /\ GetWindowSize = <<256 * p[1] + p[2], 256 * p[3] + p[4]>>

\* C29 amended: the unrelated subnegotiations are skipped whole and deliver
\* nothing; the NAWS reply that follows is decoded into the window size
\* unless the timer has fired by the time the loop is back at its select,
\* after a skipped subnegotiation or after IAC WILL NAWS: the call then
\* returns nil between two sequences with the size (0, 0).
C29_SkipThenDecodedUnlessTimeout ==
    /\ SkippedInFull
    /\ \A p \in NawsPayloads :
           (npc = "done" /\ FollowedBy(p)) =>
               /\ rwsRet = "nil"
               /\ IF rwsVia = "timeout"
                  THEN /\ timedOut
                       /\ GetWindowSize = <<0, 0>>
                       /\ JustReturned => WellFormed(Take(wire, pos))
                  ELSE /\ rwsVia = "naws"
                       /\ GetWindowSize = <<256 * p[1] + p[2], 256 * p[3] + p[4]>>

C29_Witness ==
    /\ wire = <<IAC, SB, ECHO, IAC, IAC, SE, IAC, SE>> \o NawsReply(<<0, 80, 0, 24>>) \o <<65>>
    /\ npc = "done"
    /\ rwsVia = "naws"
    /\ GetWindowSize = <<80, 24>>
    /\ StreamEnded
    /\ delivered = <<65>>

(***************************************************************************)
(* The registry and its lock, checked under SpecLocking.                    *)
(***************************************************************************)

\* This step is an access of Shutdown to server.handles: the size read of
\* line 132 or a turn (or the end) of the range loop of lines 134-139.
ShutdownAccess ==
    \/ spc = "len" /\ spc' = "range"
    \/ spc = "range" /\ (visited' # visited \/ spc' = "wait")

\* This step is the insertion or the removal by the goroutine of c.
ConnectionAccess(c) == wpc[c] \in {"put", "remove"} /\ wpc'[c] # wpc[c]

\* An access under the lock excludes every other holder: whoever accesses
\* the registry, no other task is inside a critical section of handlesMu,
\* and no entry is written while the range loop is part-way through the map.
C30_Step ==
    /\ ShutdownAccess => \A c \in Conns : ~HoldsHandlesMu(c)
    /\ \A c \in Conns :
           ConnectionAccess(c) =>
               /\ HoldsHandlesMu(c)
               /\ \A d \in Conns \ {c} : ~HoldsHandlesMu(d)
               /\ handles' # handles => ~(spc = "range" /\ visited # {})

\* C30: every access to the registry - insertion, removal, Shutdown's size
\* read and iteration - is made holding handlesMu, so that no task reads the
\* registry while another is inside a critical section writing it.
C30_LockedAccess == [][C30_Step]_vars

(***************************************************************************)
(* Properties of LongWrite and writer.Write as tasks, checked under        *)
(* SpecWriters and FairSpecWriters.                                        *)
(***************************************************************************)

\* The bytes the underlying writer has accepted from task t, in order.
SinkOf(t) ==
    LET mine == SelectSeq(sink, LAMBDA e : e[2] = t)
    IN [i \in 1..Len(mine) |-> mine[i][1]]

IsPrefix(a, b) == Len(a) <= Len(b) /\ a = Take(b, Len(a))

\* C31: against an underlying writer that takes at least one byte per call,
\* in pieces as short as it likes, with nil or io.ErrShortWrite, LongWrite
\* hands over exactly p, in order, nothing twice and nothing skipped, and
\* returns (len(p), nil).
C31_LongWriteDelivers ==
    \A t \in Writers :
        wt[t].kind = "long" =>
            /\ IsPrefix(SinkOf(t), wt[t].arg)
            /\ (wt[t].pc = "returned" /\ sinkState = "open") =>
                   /\ SinkOf(t) = wt[t].arg
                   /\ wt[t].n = Len(wt[t].arg)
                   /\ wt[t].err = "nil"

C31_Witness ==
    /\ wt[1].kind = "long"
    /\ wt[1].arg = <<65, IAC, 65>>
    /\ wt[1].pc = "returned"
    /\ sinkState = "open"
    /\ Len(sink) = 6
    /\ sink[1] = <<65, 1>>
    /\ sink[2] = <<IAC, 2>>
    /\ sink[3] = <<IAC, 1>>

\* C32: LongWrite terminates - once called it returns, whatever the
\* underlying writer does: it does not retry for ever against a writer that
\* keeps taking 0 bytes.
C32_LongWriteTerminates ==
    \A t \in Writers :
        (wt[t].kind = "long" /\ wt[t].pc = "lw") ~> (wt[t].pc = "returned")

\* The positions of the sink that hold a byte of task t.
PositionsOf(t) == {i \in 1..Len(sink) : sink[i][2] = t}

\* The bytes of task t are next to each other in the sink.
Contiguous(t) ==
    \A i \in PositionsOf(t), j \in PositionsOf(t) :
        \A k \in i..j : k \in PositionsOf(t)

\* Position i lies between the two bytes of an escape of task t: an odd
\* number of that task's bytes 255 comes before it.
SplitsEscape(t, i) ==
    Cardinality({k \in 1..(i - 1) : sink[k] = <<IAC, t>>}) % 2 = 1

\* C33: a WriteCommand issued while a data Write is under way on the same
\* writer has its three bytes next to each other on the wire, and none of
\* them between the two bytes of an IAC IAC pair of the data.
C33_CommandNotInterleaved ==
    (wt[1].kind = "data" /\ wt[2].kind = "cmd") =>
        /\ Contiguous(2)
        /\ \A i \in PositionsOf(2) : ~SplitsEscape(1, i)

(***************************************************************************)
(* The window size of a Session, checked under SpecSessionCalls.            *)
(***************************************************************************)

\* The step stores the size carried by a NAWS subnegotiation that
\* RequestWindowSize has just read to its end.
DecodesNaws ==
    /\ npc = "terminator"
    /\ rwsVia' = "naws"
    /\ pos >= 7
    /\ SubSeq(wire, pos - 6, pos - 4) = <<255, 250, 31>>
    /\ SubSeq(wire, pos + 1, pos + 2) = <<255, 240>>
    /\ GetWindowSize' = <<256 * wire[pos - 3] + wire[pos - 2], 256 * wire[pos - 1] + wire[pos]>>

C34_Step == GetWindowSize' # GetWindowSize => DecodesNaws

\* C34: the window size of a new Session is (0, 0) and only RequestWindowSize
\* decoding a NAWS subnegotiation changes it: Read, ReadLine, Write,
\* WriteLine and WriteCommand leave it as it is, also when the Read path
\* consumes a NAWS subnegotiation.
C34_WindowSizeFrame == GetWindowSize = <<0, 0>> /\ [][C34_Step]_vars

C34_Witness ==
    /\ wire = <<IAC, SB, NAWS, 0, 80, 0, 24, IAC, SE>> \o <<IAC, SB, NAWS, 0, 24, 0, 80, IAC, SE>>
    /\ rwsVia = "naws"
    /\ GetWindowSize = <<80, 24>>
    /\ StreamEnded
    /\ pos = Len(wire)
    /\ lineErr = "EOF"
    /\ Len(outw) > 3

(***************************************************************************)
(* The registry entries of connections that share a remote address.        *)
(***************************************************************************)

\* Connection d has registered its cancel operation, and neither its token
\* has been cancelled nor its handle has ended: it is still running.
StillRunning(d) == wpc[d] = "wait" /\ ~done[d] /\ tpc[d] \in {"negotiate", "handler"}

\* C35: what finishes or cancels one connection never removes or replaces
\* the registry entry of another connection that is still running, also when
\* a remote address is used again before the goroutine of the old connection
\* has removed its entry: a still-running connection has an entry that leads
\* to it, so that Shutdown reaches it.
C35_RunningConnectionRegistered == \A d \in Conns : StillRunning(d) => HasEntry(d)

(***************************************************************************)
(* Read holding decoded bytes.                                             *)
(***************************************************************************)

\* Read is inside a command or a subnegotiation and its next ReadByte, Peek
\* or Discard can complete only when the peer sends more or closes: nothing
\* is buffered, nothing is in flight, the stream has not ended.
WaitsForPeer == rpc \in {"peek", "discard", "sb", "sbpeek"} /\ pos = Len(wire) /\ ~eof

\* C36: once Read has decoded an application byte in a call it returns
\* without waiting for further wire input; with an incomplete command or an
\* unterminated subnegotiation as the rest of the buffered input it does not
\* wait for the rest to arrive.
C36_ReturnsWithoutWaiting == rn > 0 => ~WaitsForPeer

(***************************************************************************)
(* writer.Write against an underlying writer that fails.                   *)
(***************************************************************************)

\* The step is a Write of the underlying writer, called by task t, that
\* returns an error other than io.ErrShortWrite.
HardFailure(t) ==
    /\ wt[t].pc = "lw"
    /\ Len(wt[t].p) > 0
    /\ sinkState \in {"failing", "broken"}
    /\ wt'[t] # wt[t]

\* The call of task t has returned: it writes nothing more.
Silent(t) == wt[t].pc = "returned" => SinkOf(t)' = SinkOf(t)

C37_Step ==
    \A t \in Writers :
        /\ HardFailure(t) => (wt'[t].pc = "returned" /\ wt'[t].err = "broken pipe")
        /\ Silent(t)

\* writer.Write of task t has returned the error of the underlying writer:
\* what it wrote is a part of the encoding of its argument, and the encoding
\* of the first n bytes of the argument is on the wire whole.
C37_Counted ==
    \A t \in Writers :
        (wt[t].kind = "data" /\ wt[t].pc = "returned" /\ wt[t].err # "nil") =>
            /\ wt[t].err = "broken pipe"
            /\ IsPrefix(SinkOf(t), Doubled(wt[t].arg))
            /\ wt[t].n <= Len(wt[t].arg)
            /\ IsPrefix(Doubled(Take(wt[t].arg, wt[t].n)), SinkOf(t))

InNaws == npc \in {"payload", "terminator"}

\* The two bytes after the payload are there and are not IAC SE.
BadTerminator ==
    /\ npc = "terminator"
    /\ Len(wire) - pos >= 2
    /\ SubSeq(wire, pos + 1, pos + 2) # <<255, 240>>

\* The stream has ended with fewer bytes left than the read needs.
StreamFails == InNaws /\ eof /\ Len(wire) - pos < (IF npc = "payload" THEN 4 ELSE 2)

\* The task inside RequestWindowSize takes a step.
RwsActs == InNaws /\ (npc' # npc \/ pos' # pos)

C38_Step ==
    ((BadTerminator \/ StreamFails) /\ RwsActs) =>
        /\ npc' = "done"
        /\ rwsRet' \in {"failed to read NAWS SB payload", "failed to read NAWS SB terminator",
                        "invalid NAWS SB terminator after payload"}
        /\ GetWindowSize' = GetWindowSize

\* RequestWindowSize has returned from the payload or the terminator without
\* a size: with an error, and the size is the one the session had.
C38_Kept ==
    (npc = "done" /\ rwsVia \in {"payload", "terminator"}) =>
        /\ rwsRet \notin {"nil", "none"}
        /\ GetWindowSize = input.size

\* C38: when the four payload bytes of a NAWS subnegotiation are not followed
\* by IAC SE, or the stream fails while the payload or the terminator is
\* read, RequestWindowSize returns an error and the window size keeps the
\* value it had.
C38_BadNawsKeepsSize == []C38_Kept /\ [][C38_Step]_vars

\* A session that held 24 x 80 got IAC SB NAWS 0 80 0 24 IAC IAC: the call
\* has failed on the terminator and the size is still 24 x 80.
C38_Witness ==
    /\ wire = <<IAC, SB, NAWS, 0, 80, 0, 24, IAC, IAC>>
    /\ npc = "done"
    /\ rwsRet = "invalid NAWS SB terminator after payload"
    /\ GetWindowSize = <<24, 80>>
    /\ pos = 9

(***************************************************************************)
(* Serve and Shutdown over the life of a Server, checked under             *)
(* SpecLifecycle.                                                          *)
(***************************************************************************)

\* The step is a call of Shutdown, up to the close of the listener.
ShutdownCalled ==
    /\ spc \in {"idle", "returned", "failed"}
    /\ spc' \in {"len", "failed"}
    /\ spc' # spc

\* The connections and the registry are as they were.
ConnectionsUntouched ==
    /\ done' = done
    /\ closed' = closed
    /\ tpc' = tpc
    /\ wpc' = wpc
    /\ handles' = handles
    /\ pending' = pending

C39_Step ==
    /\ (ShutdownCalled /\ served # 0 /\ listener = "closed") =>
           (spc' = "failed" /\ listener' = listener /\ ConnectionsUntouched)
    /\ spc = "failed" => pending' \subseteq pending

\* C39: when closing the listener fails inside Shutdown - on a second
\* Shutdown, or after Serve has returned and closed the listener - Shutdown
\* returns the error and calls no registered cancel: the running connections
\* and the registry are as they were.
C39_ShutdownCloseFails == [][C39_Step]_vars

\* Serve has returned from a failed Accept with a handler still running and
\* registered; the Shutdown called then has returned the error of Close and
\* the connection is not cancelled.
C39_Witness ==
    /\ spc = "failed"
    /\ serving[1] = "accept failed"
    /\ \E c \in Conns : tpc[c] = "handler" /\ ~done[c] /\ ~closed[c] /\ HasEntry(c)
    /\ pending = {}

\* The step is a call of Serve, number i.
ServeCalled(i) == serving[i] = "none" /\ serving'[i] # "none"

C40_Step ==
    /\ \A i \in Serves :
          (ServeCalled(i) /\ served # 0) =>
              /\ serving'[i] = "server already listening"
              /\ served' = served
              /\ listener' = listener
              /\ handles' = handles
              /\ tpc' = tpc
    /\ served # 0 => served' = served
    /\ \A c \in Conns :
          tpc'[c] # tpc[c] /\ tpc[c] = "none" => serving[served] = "accepting"

\* C40: Serve on a Server whose listener is set returns 'server already
\* listening', accepts nothing and replaces neither the listener nor the
\* registry; the listener is never cleared, so the same holds for a Serve
\* called after the first Serve has returned or after Shutdown.
C40_ServeOnce == [][C40_Step]_vars

\* The first Serve has returned after Shutdown closed its listener; a second
\* Serve has been refused, with a connection of the first still registered.
C40_Witness ==
    /\ serving[1] = "use of closed network connection"
    /\ serving[2] = "server already listening"
    /\ served = 1
    /\ listener = "closed"
    /\ spc \in {"range", "wait", "returned"}
    /\ DOMAIN handles # {}

====
